---- MODULE Spec2Model ----
(***************************************************************************)
(* A model of quic3: a file sender (src/bin/client.rs), a file receiver    *)
(* (src/bin/server.rs) and the header codec / name sanitizer they share    *)
(* (src/lib.rs).                                                           *)
(*                                                                         *)
(* Representation.                                                         *)
(*   - A byte is a number in 0..255, a byte string a sequence of bytes.    *)
(*   - A Rust String / &str is modelled by its UTF-8 bytes.                *)
(*   - A u64 is four 16-bit limbs, least significant first (TLC integers   *)
(*     are 32 bits wide): the value is l[1] + 2^16 l[2] + 2^32 l[3] +      *)
(*     2^48 l[4].                                                          *)
(***************************************************************************)
EXTENDS Integers, Sequences, FiniteSets, TLC

VARIABLES
    \* ---- header codec, driven on its own (SpecCodec) ----
    cd_pc,       \* "off" | "input" | "encoded" | "decoded" | "probed" | "probed_again"
    cd_name,     \* file_name argument of encode_header
    cd_size,     \* file_size argument of encode_header
    cd_enc,      \* Result<Vec<u8>> of encode_header
    cd_buf,      \* the buffer handed to try_decode_header
    cd_dec,      \* Option<(FileHeader, usize)> of try_decode_header
    cd_raw,      \* a header built byte by byte, its name bytes arbitrary
    cd_again,    \* what a second call on the same buffer returns
    \* ---- name sanitizer, driven on its own (SpecSan) ----
    san_pc,      \* "off" | "input" | "done"
    san_in,      \* the input string
    san_out,     \* the returned String
    \* ---- the receiver (Spec): one handle_stream task per accepted stream ----
    listening,   \* main is in its accept loop; FALSE once main has returned
    conn,        \* per connection: "pending" | "open" | "closed"
    pc,          \* per stream: where its handler stands (see the actions)
    wire,        \* per stream: all the bytes the peer sends before it closes
    rcvd,        \* per stream: how many of them stream.receive() has returned
    buffer,      \* per stream: handle_stream's buffer
    header,      \* per stream: the decoded FileHeader
    consumed,    \* per stream: the length of the decoded header
    target_path, \* per stream: output_dir.join(safe_name)
    written,     \* per stream: receive_file's counter
    chunk,       \* per stream: the chunk receive() returned, while it is written
    accepted,    \* per stream: how many bytes of the slice write_all has handed over
    file,        \* per stream: the tokio File: its state, buffer, last result
    sink,        \* per stream: the bytes its file handle has put into the file, in order
    report,      \* per stream: what the handler printed when it ended
    fs,          \* the files of the output directory: path -> contents
    \* ---- the sender (SpecClient): main of src/bin/client.rs ----
    cl_pc,       \* the statement main stands at, "done" or "failed"
    cl_file,     \* the bytes the reads of that file return, up to its end
    cl_name,     \* file_name
    cl_size,     \* metadata.len()
    cl_header,   \* Result of encode_header
    cl_conn,     \* a connection to the server was opened
    cl_stream,   \* "none" | "open" | "closed"
    cl_sent,     \* the bytes put on the stream, in order
    cl_off,      \* how many bytes of the file the reader has returned
    cl_buf,      \* &buffer[..bytes_read] of the last read that returned bytes
    cl_total,    \* total_sent
    cl_err,      \* the statement whose error ended main
    \* ---- the certificate bootstrap (SpecCert) ----
    ct_cert_path, \* cert_path argument
    ct_key_path,  \* key_path argument
    ct_files,     \* the files at the paths: path -> [exists, data]
    ct_calls,     \* how many times ensure_self_signed_certificate was called
    ct_gen,       \* how many key pairs were generated
    ct_result     \* Result of the last call: "none" | "ok" | "err"

codecVars == <<cd_pc, cd_name, cd_size, cd_enc, cd_buf, cd_dec, cd_raw, cd_again>>

sanVars == <<san_pc, san_in, san_out>>

streamVars == <<pc, wire, rcvd, buffer, header, consumed, target_path, written, chunk,
                accepted, file, sink, report>>

serverVars == <<listening, conn, pc, wire, rcvd, buffer, header, consumed, target_path,
                written, chunk, accepted, file, sink, report, fs>>

clientVars == <<cl_pc, cl_file, cl_name, cl_size, cl_header, cl_conn, cl_stream,
                cl_sent, cl_off, cl_buf, cl_total, cl_err>>

certVars == <<ct_cert_path, ct_key_path, ct_files, ct_calls, ct_gen, ct_result>>

vars == <<cd_pc, cd_name, cd_size, cd_enc, cd_buf, cd_dec, cd_raw, cd_again, san_pc, san_in, san_out,
          listening, conn, pc, wire, rcvd, buffer, header, consumed, target_path,
          written, chunk, accepted, file, sink, report, fs,
          cl_pc, cl_file, cl_name, cl_size, cl_header, cl_conn, cl_stream,
          cl_sent, cl_off, cl_buf, cl_total, cl_err,
          ct_cert_path, ct_key_path, ct_files, ct_calls, ct_gen, ct_result>>

(***************************************************************************)
(* Program constants and bounds                                            *)
(***************************************************************************)
HEADER_PREFIX_LEN == 10

U16_MAX == 65535

\* longest name, in characters, among the short names the codec is driven with
MaxNameChars == 2

\* encoded headers up to this length are cut at every split point
MaxFullSplit == 24

Rep(b, n) == [i \in 1..n |-> b]

Min(S) == CHOOSE x \in S : \A y \in S : x <= y

RECURSIVE Strings(_, _)
\* the strings of at most n characters of A
Strings(A, n) ==
    IF n = 0 THEN { <<>> }
    ELSE LET S == Strings(A, n - 1)
         IN  S \cup { s \o c : s \in S, c \in A }

(***************************************************************************)
(* Fixed-width integers                                                    *)
(***************************************************************************)
\* a slip: the length written most significant byte first
u16_to_be_bytes(n) == << (n % 65536) \div 256, (n % 65536) % 256 >>

\* u16::to_le_bytes of (n as u16): the cast keeps the low 16 bits
u16_to_le_bytes(n) == << (n % 65536) % 256, (n % 65536) \div 256 >>

\* u16::from_le_bytes([b0, b1]) as usize
u16_from_le_bytes(b0, b1) == b0 + 256 * b1

\* u64::to_le_bytes: limb i gives bytes 2i-1 (low) and 2i (high)
u64_to_le_bytes(v) ==
    << v[1] % 256, v[1] \div 256, v[2] % 256, v[2] \div 256,
       v[3] % 256, v[3] \div 256, v[4] % 256, v[4] \div 256 >>

\* a slip: the eight bytes read most significant first
u64_from_be_bytes(b) ==
    << b[8] + 256 * b[7], b[6] + 256 * b[5], b[4] + 256 * b[3], b[2] + 256 * b[1] >>

\* u64::from_le_bytes of eight bytes, first byte least significant
u64_from_le_bytes(b) ==
    << b[1] + 256 * b[2], b[3] + 256 * b[4], b[5] + 256 * b[6], b[7] + 256 * b[8] >>

\* a small count as a u64
U64(n) == << n % 65536, (n \div 65536) % 65536, 0, 0 >>

(***************************************************************************)
(* String::from_utf8_lossy: the valid parts are kept, every maximal        *)
(* invalid part is replaced by U+FFFD (EF BF BD).                          *)
(***************************************************************************)
REPLACEMENT == <<239, 191, 189>>

\* xs.get(i).unwrap_or(0), i counted from 1
safe_get(xs, i) == IF i <= Len(xs) THEN xs[i] ELSE 0

IsCont(b) == b >= 128 /\ b <= 191

utf8_char_width(b) ==
    IF b < 128 THEN 1
    ELSE IF b >= 194 /\ b <= 223 THEN 2
    ELSE IF b >= 224 /\ b <= 239 THEN 3
    ELSE IF b >= 240 /\ b <= 244 THEN 4
    ELSE 0

\* second byte of a 3-byte sequence allowed after lead byte b
Second3(b, c) ==
    \/ b = 224 /\ c >= 160 /\ c <= 191
    \/ b >= 225 /\ b <= 236 /\ IsCont(c)
    \/ b = 237 /\ c >= 128 /\ c <= 159
    \/ b >= 238 /\ b <= 239 /\ IsCont(c)

\* second byte of a 4-byte sequence allowed after lead byte b
Second4(b, c) ==
    \/ b = 240 /\ c >= 144 /\ c <= 191
    \/ b >= 241 /\ b <= 243 /\ IsCont(c)
    \/ b = 244 /\ c >= 128 /\ c <= 143

\* The character starting at xs[i]: [ok, n] where n is the number of bytes
\* inspected (the length of the character, or of the invalid part).
Utf8Step(xs, i) ==
    LET b == xs[i]
        w == utf8_char_width(b)
    IN  IF w = 1 THEN [ok |-> TRUE, n |-> 1]
        ELSE IF w = 2 THEN
            IF IsCont(safe_get(xs, i + 1)) THEN [ok |-> TRUE, n |-> 2]
            ELSE [ok |-> FALSE, n |-> 1]
        ELSE IF w = 3 THEN
            IF ~Second3(b, safe_get(xs, i + 1)) THEN [ok |-> FALSE, n |-> 1]
            ELSE IF ~IsCont(safe_get(xs, i + 2)) THEN [ok |-> FALSE, n |-> 2]
            ELSE [ok |-> TRUE, n |-> 3]
        ELSE IF w = 4 THEN
            IF ~Second4(b, safe_get(xs, i + 1)) THEN [ok |-> FALSE, n |-> 1]
            ELSE IF ~IsCont(safe_get(xs, i + 2)) THEN [ok |-> FALSE, n |-> 2]
            ELSE IF ~IsCont(safe_get(xs, i + 3)) THEN [ok |-> FALSE, n |-> 3]
            ELSE [ok |-> TRUE, n |-> 4]
        ELSE [ok |-> FALSE, n |-> 1]

\* first index >= i holding a non-ASCII byte, Len(xs) + 1 if there is none
NextNonAscii(xs, i) ==
    LET S == {j \in i..Len(xs) : xs[j] >= 128}
    IN  IF S = {} THEN Len(xs) + 1 ELSE Min(S)

RECURSIVE LossyFrom(_, _)
LossyFrom(xs, i) ==
    IF i > Len(xs) THEN <<>>
    ELSE LET j == NextNonAscii(xs, i)
         IN  IF j > i THEN SubSeq(xs, i, j - 1) \o LossyFrom(xs, j)
             ELSE LET s == Utf8Step(xs, i)
                  IN  (IF s.ok THEN SubSeq(xs, i, i + s.n - 1) ELSE REPLACEMENT)
                          \o LossyFrom(xs, i + s.n)

from_utf8_lossy(xs) == LossyFrom(xs, 1)

(***************************************************************************)
(* Header codec (src/lib.rs)                                               *)
(***************************************************************************)
NoBytes == <<>>

Err(what) == [ok |-> FALSE, bytes |-> NoBytes, err |-> what]

Ok(bytes) == [ok |-> TRUE, bytes |-> bytes, err |-> "none"]

\* a slip: the limit of a u8 length for that of a u16 length
encode_header_u8(file_name, file_size) ==
    IF Len(file_name) > 255
    THEN Err("file name too long")
    ELSE Ok(u16_to_le_bytes(Len(file_name)) \o u64_to_le_bytes(file_size) \o file_name)

encode_header(file_name, file_size) ==
    IF Len(file_name) > U16_MAX
    THEN Err("file name too long")
    ELSE Ok(u16_to_le_bytes(Len(file_name)) \o u64_to_le_bytes(file_size) \o file_name)

FileHeader(file_name, file_size) == [file_name |-> file_name, file_size |-> file_size]

NoHeader == FileHeader(<<>>, <<0, 0, 0, 0>>)

None == [some |-> FALSE, header |-> NoHeader, consumed |-> 0]

Some(hdr, used) == [some |-> TRUE, header |-> hdr, consumed |-> used]

\* a slip: the second length check is missing, the name is whatever has arrived
try_decode_header_partial(buf) ==
    IF Len(buf) < HEADER_PREFIX_LEN THEN None
    ELSE LET name_len  == u16_from_le_bytes(buf[1], buf[2])
             file_size == u64_from_le_bytes(SubSeq(buf, 3, 10))
             have      == IF Len(buf) < HEADER_PREFIX_LEN + name_len
                          THEN Len(buf) ELSE HEADER_PREFIX_LEN + name_len
         IN  Some(FileHeader(from_utf8_lossy(SubSeq(buf, HEADER_PREFIX_LEN + 1, have)),
                             file_size), have)

\* a slip: <= for <, the header is complete only once a body byte has arrived
try_decode_header_strict(buf) ==
    IF Len(buf) <= HEADER_PREFIX_LEN THEN None
    ELSE LET name_len  == u16_from_le_bytes(buf[1], buf[2])
             file_size == u64_from_le_bytes(SubSeq(buf, 3, 10))
         IN  IF Len(buf) <= HEADER_PREFIX_LEN + name_len THEN None
             ELSE LET name_bytes ==
                          SubSeq(buf, HEADER_PREFIX_LEN + 1, HEADER_PREFIX_LEN + name_len)
                  IN  Some(FileHeader(from_utf8_lossy(name_bytes), file_size),
                           HEADER_PREFIX_LEN + name_len)

\* a slip: everything after the ten fixed bytes is taken for the name
try_decode_header_whole(buf) ==
    IF Len(buf) < HEADER_PREFIX_LEN THEN None
    ELSE LET name_len  == u16_from_le_bytes(buf[1], buf[2])
             file_size == u64_from_le_bytes(SubSeq(buf, 3, 10))
         IN  IF Len(buf) < HEADER_PREFIX_LEN + name_len THEN None
             ELSE Some(FileHeader(from_utf8_lossy(SubSeq(buf, HEADER_PREFIX_LEN + 1,
                                                         Len(buf))), file_size),
                       Len(buf))

try_decode_header(buf) ==
    IF Len(buf) < HEADER_PREFIX_LEN THEN None
    ELSE LET name_len  == u16_from_le_bytes(buf[1], buf[2])
             file_size == u64_from_le_bytes(SubSeq(buf, 3, 10))
         IN  IF Len(buf) < HEADER_PREFIX_LEN + name_len THEN None
             ELSE LET name_bytes ==
                          SubSeq(buf, HEADER_PREFIX_LEN + 1, HEADER_PREFIX_LEN + name_len)
                  IN  Some(FileHeader(from_utf8_lossy(name_bytes), file_size),
                           HEADER_PREFIX_LEN + name_len)

(***************************************************************************)
(* Name sanitizer (src/lib.rs): Path::new(input).file_name(), that is the  *)
(* last component of std::path::Components when it is a Normal component   *)
(* (Unix paths: the separator is '/', there is no prefix).                 *)
(***************************************************************************)
SEP == 47

DOT == 46

RECEIVED_FILE == <<114, 101, 99, 101, 105, 118, 101, 100, 95, 102, 105, 108, 101>>

Normal(name) == [kind |-> "Normal", name |-> name]

ParentDir == [kind |-> "ParentDir", name |-> <<DOT, DOT>>]

CurDir == [kind |-> "CurDir", name |-> <<DOT>>]

RootDir == [kind |-> "RootDir", name |-> <<SEP>>]

NoComponent == [kind |-> "None", name |-> <<>>]

has_physical_root(path) == Len(path) > 0 /\ path[1] = SEP

\* a leading "." that is the whole path or is followed by a separator
include_cur_dir(path, has_root) ==
    /\ ~has_root
    /\ Len(path) >= 1
    /\ path[1] = DOT
    /\ (Len(path) = 1 \/ path[2] = SEP)

len_before_body(path, has_root) ==
    (IF has_root THEN 1 ELSE 0) + (IF include_cur_dir(path, has_root) THEN 1 ELSE 0)

\* a slip: "." is kept as a component instead of being skipped
parse_single_component_keepdot(comp) ==
    IF comp = <<DOT>> THEN CurDir
    ELSE IF comp = <<DOT, DOT>> THEN ParentDir
    ELSE IF comp = <<>> THEN NoComponent
    ELSE Normal(comp)

parse_single_component(comp) ==
    IF comp = <<DOT>> THEN NoComponent
    ELSE IF comp = <<DOT, DOT>> THEN ParentDir
    ELSE IF comp = <<>> THEN NoComponent
    ELSE Normal(comp)

\* the component after the last separator of the body: [size, comp]
parse_next_component_back(path, has_root) ==
    LET start == len_before_body(path, has_root)
        seps  == {i \in (start + 1)..Len(path) : path[i] = SEP}
    IN  IF seps = {}
        THEN [size |-> Len(path) - start,
              comp |-> parse_single_component(SubSeq(path, start + 1, Len(path)))]
        ELSE LET i == CHOOSE j \in seps : \A k \in seps : k <= j
             IN  [size |-> Len(path) - i + 1,
                  comp |-> parse_single_component(SubSeq(path, i + 1, Len(path)))]

RECURSIVE next_back(_, _)
\* Components::next_back of a fresh iterator: the last component
next_back(path, has_root) ==
    IF Len(path) > len_before_body(path, has_root)
    THEN LET r == parse_next_component_back(path, has_root)
         IN  IF r.comp.kind # "None" THEN r.comp
             ELSE next_back(SubSeq(path, 1, Len(path) - r.size), has_root)
    ELSE IF has_root THEN RootDir
    ELSE IF include_cur_dir(path, has_root) THEN CurDir
    ELSE NoComponent

\* a slip: the last component is returned whatever its kind
file_name_any(path) ==
    LET c == next_back(path, has_physical_root(path))
    IN  IF c.kind # "None" THEN [some |-> TRUE, name |-> c.name]
        ELSE [some |-> FALSE, name |-> <<>>]

\* Path::file_name: Some(name) only for a Normal last component
file_name(path) ==
    LET c == next_back(path, has_physical_root(path))
    IN  IF c.kind = "Normal" THEN [some |-> TRUE, name |-> c.name]
        ELSE [some |-> FALSE, name |-> <<>>]

sanitize_file_name(input) ==
    LET f == file_name(input)
    IN  IF f.some THEN from_utf8_lossy(f.name) ELSE RECEIVED_FILE

(***************************************************************************)
(* SpecCodec: encode_header and try_decode_header driven on their own.     *)
(***************************************************************************)
\* characters (as UTF-8) the short names are made of: a / . e-acute euro emoji
Alphabet == { <<97>>, <<47>>, <<46>>, <<195, 169>>, <<226, 130, 172>>,
              <<240, 159, 152, 128>> }

\* names of 255, 256, 65535 and 65536 bytes
LongNames == { Rep(97, 255), Rep(97, 256), Rep(97, U16_MAX), Rep(97, U16_MAX + 1) }

CodecNames == Strings(Alphabet, MaxNameChars) \cup LongNames

\* 0, 5, 0x0807060504030201, 2^64 - 1
CodecSizes == { <<0, 0, 0, 0>>, <<5, 0, 0, 0>>, <<513, 1027, 1541, 2055>>,
                <<65535, 65535, 65535, 65535>> }

\* where an encoded header h is cut
SplitPoints(h) ==
    IF Len(h) <= MaxFullSplit THEN 0..Len(h)
    ELSE {0, 1, 2, 9, 10, 11, Len(h) \div 2, Len(h) - 1, Len(h)}

Encode ==
    /\ cd_pc = "input"
    /\ cd_enc' = encode_header(cd_name, cd_size)
    /\ cd_pc' = "encoded"
    /\ UNCHANGED <<cd_name, cd_size, cd_buf, cd_dec, cd_raw, cd_again>>
    /\ UNCHANGED <<sanVars, serverVars, clientVars, certVars>>

\* try_decode_header on the first k bytes of the encoded header
DecodePrefix ==
    /\ cd_pc = "encoded"
    /\ cd_enc.ok
    /\ \E k \in SplitPoints(cd_enc.bytes) :
          /\ cd_buf' = SubSeq(cd_enc.bytes, 1, k)
          /\ cd_dec' = try_decode_header(SubSeq(cd_enc.bytes, 1, k))
    /\ cd_pc' = "decoded"
    /\ UNCHANGED <<cd_name, cd_size, cd_enc, cd_raw, cd_again>>
    /\ UNCHANGED <<sanVars, serverVars, clientVars, certVars>>

\* longest tail, in bytes, among the generated tails
MaxTail == 2

\* name bytes as a peer may send them: "", "a", e-acute, "/..", and byte
\* strings that are not UTF-8 (a stray 0xFF, cut 2-, 3- and 4-byte
\* characters, a lone continuation byte, an overlong NUL, a surrogate)
RawNames == { <<>>, <<97>>, <<195, 169>>, <<SEP, DOT, DOT>>,
              <<255>>, <<97, 255, 98>>, <<195>>, <<226, 130>>, <<240, 159, 152>>,
              <<128>>, <<192, 128>>, <<237, 160, 128>> }

\* what follows a header in the buffer: nothing, bytes 0x00 and 0xFF, or
\* bytes that are themselves a header
Tails == Strings({ <<0>>, <<255>> }, MaxTail)
             \cup { <<1, 0, 1, 0, 0, 0, 0, 0, 0, 0, 98>> }

\* the header of a peer that announces the name bytes as they are
RawHeader(name_bytes, file_size) ==
    u16_to_le_bytes(Len(name_bytes)) \o u64_to_le_bytes(file_size) \o name_bytes

\* try_decode_header on a buffer that holds a whole header and a tail
DecodeWithTail ==
    /\ cd_pc = "encoded"
    /\ \E h \in { RawHeader(r, cd_size) : r \in RawNames }
                  \cup (IF cd_enc.ok THEN { cd_enc.bytes } ELSE {}) :
          \E t \in Tails :
             /\ cd_raw' = h
             /\ cd_buf' = h \o t
             /\ cd_dec' = try_decode_header(h \o t)
    /\ cd_pc' = "probed"
    /\ UNCHANGED <<cd_name, cd_size, cd_enc, cd_again>>
    /\ UNCHANGED <<sanVars, serverVars, clientVars, certVars>>

\* try_decode_header takes &[u8]: a second call reads the same bytes
DecodeAgain ==
    /\ cd_pc = "probed"
    /\ cd_again' = try_decode_header(cd_buf)
    /\ cd_pc' = "probed_again"
    /\ UNCHANGED <<cd_name, cd_size, cd_enc, cd_buf, cd_dec, cd_raw>>
    /\ UNCHANGED <<sanVars, serverVars, clientVars, certVars>>

(***************************************************************************)
(* SpecSan: sanitize_file_name driven on its own.                          *)
(***************************************************************************)
\* longest input, in characters, among the generated inputs
MaxSanChars == 4

\* a / . e-acute
SanAlphabet == { <<97>>, <<SEP>>, <<DOT>>, <<195, 169>> }

EtcPasswd == <<46, 46, 47, 46, 46, 47, 101, 116, 99, 47, 112, 97, 115, 115, 119, 100>>

Passwd == <<112, 97, 115, 115, 119, 100>>

ABCTxt == <<97, 47, 98, 47, 99, 46, 116, 120, 116>>

CTxt == <<99, 46, 116, 120, 116>>

SanInputs == Strings(SanAlphabet, MaxSanChars) \cup { EtcPasswd, ABCTxt, RECEIVED_FILE }

Sanitize ==
    /\ san_pc = "input"
    /\ san_out' = sanitize_file_name(san_in)
    /\ san_pc' = "done"
    /\ UNCHANGED san_in
    /\ UNCHANGED <<codecVars, serverVars, clientVars, certVars>>

(***************************************************************************)
(* The receiver (src/bin/server.rs).                                       *)
(*                                                                         *)
(* main accepts connections and spawns one task per connection, which      *)
(* accepts streams and spawns one handle_stream task per stream.  A        *)
(* handler's position pc is the await it stands at:                        *)
(*   "idle"          the stream is not accepted yet                        *)
(*   "await_header"  stream.receive() in handle_stream's loop   (line 84)  *)
(*   "create"        File::create in receive_file               (line 120) *)
(*                   the open is with a blocking task, see create_open     *)
(*   "write_rest"    write_all of the buffered body bytes       (line 125) *)
(*   "body"          stream.receive() in receive_file's loop    (line 129) *)
(*   "write_chunk"   write_all of a chunk of the body           (line 130) *)
(*   "flush"         file.flush()                               (line 134) *)
(* or how it ended:                                                        *)
(*   "closed_before_header" (line 94), "read_failed" (line 98),            *)
(*   "store_failed" (line 108), "received" (line 137), "warned" (line 144) *)
(* When main returns (line 71) every task stays where it stands.           *)
(* The transport is reliable and ordered: receive() returns the next bytes *)
(* of wire in pieces of any size, None once all have been returned, or an  *)
(* error at any time.                                                      *)
(* The file is a tokio::fs::File, which writes behind: write_all copies    *)
(* the bytes into the handle's buffer, hands the buffer to a blocking task *)
(* and returns; the blocking task writes them at the handle's own offset,  *)
(* which is the number of bytes the handle has put into the file.  At most *)
(* one write per handle is in flight; its result is seen by the next       *)
(* write_all or flush of the handle.  File::create works the same way: the *)
(* open is handed to a blocking task and the handler resumes with its      *)
(* result.  A blocking task that was handed work may carry it out after    *)
(* its handler has ended and after main has returned.                      *)
(***************************************************************************)
Streams == {1, 2}

\* the connection a stream belongs to: one stream per connection
ConnOf(h) == h

Conns == { ConnOf(h) : h \in Streams }

\* longest body, in bytes, a peer sends
MaxBody == 2

\* length of the truncated header a peer may send before closing
TruncLen == 5

OUTPUT_DIR == "received"

\* output_dir.join(safe_name); safe_name is never absolute (it has no separator)
join(dir, name) == [dir |-> dir, name |-> name]

NoPath == [dir |-> "", name |-> <<>>]

\* "/a" (sanitized to "a") and "b"
SrvNames == { <<SEP, 97>>, <<98>> }

SrvSizes == { U64(1) }

\* the body of k bytes stream h's peer sends: bytes that tell the streams apart
Body(h, k) == [i \in 1..k |-> 16 * h + i]

\* what the peer of stream h may send.  On the first stream a transfer named
\* "/a" with fewer, as many or more body bytes than declared, or a cut
\* header, or nothing; on the second a transfer named "/a" with as many body
\* bytes as declared, or one named "b" with more
Wires(h) ==
    IF h = 1
    THEN { encode_header(<<SEP, 97>>, z).bytes \o Body(h, k) :
               z \in SrvSizes, k \in 0..MaxBody }
         \cup { SubSeq(encode_header(<<98>>, U64(1)).bytes, 1, TruncLen), <<>> }
    ELSE { encode_header(<<SEP, 97>>, U64(1)).bytes \o Body(h, 1),
           encode_header(<<98>>, U64(1)).bytes \o Body(h, MaxBody) }

NoReport ==
    [kind |-> "none", name |-> <<>>, expected |-> U64(0), actual |-> 0,
     path |-> NoPath, err |-> "none"]

\* eprintln!("[..] connection closed before header received")
ClosedBeforeHeader == [NoReport EXCEPT !.kind = "closed_before_header"]

\* eprintln!("[..] failed to read stream: {err}")
ReadFailed == [NoReport EXCEPT !.kind = "read_failed", !.err = "receive"]

\* eprintln!("[..] failed to store file: {err}")
StoreFailed(err) == [NoReport EXCEPT !.kind = "store_failed", !.err = err]

\* println!("[..] received '{}' ({} bytes) at {}", file_name, file_size, target_path)
Received(hdr, path) ==
    [NoReport EXCEPT !.kind = "received", !.name = hdr.file_name,
                     !.expected = hdr.file_size, !.path = path]

\* eprintln!("[..] warning: expected {} bytes for '{}' but wrote {}", file_size, file_name, written)
Warning(hdr, n) ==
    [NoReport EXCEPT !.kind = "warning", !.name = hdr.file_name,
                     !.expected = hdr.file_size, !.actual = n]

\* tokio's DEFAULT_MAX_BUF_SIZE: the most one blocking write carries
MAX_BUF_SIZE == 2 * 1024 * 1024

\* no File yet
NoFile == [state |-> "None", buf |-> <<>>, res |-> "none"]

\* File::create's open is with a blocking task
Opening == [state |-> "Opening", buf |-> <<>>, res |-> "pending"]

\* the blocking task has opened the file ("ok") or failed to ("err")
Opened(res) == [state |-> "Opening", buf |-> <<>>, res |-> res]

\* State::Idle: no write in flight
Idle == [state |-> "Idle", buf |-> <<>>, res |-> "none"]

\* State::Busy: a blocking task was given bytes to write
Busy(bytes) == [state |-> "Busy", buf |-> bytes, res |-> "pending"]

\* State::Busy, the blocking task has ended with res: "ok" or "err"
Done(res) == [state |-> "Busy", buf |-> <<>>, res |-> res]

\* a slip: creating a file empties every file of the directory
FsCreate_clear(f, path) == [p \in (DOMAIN f) \cup {path} |-> <<>>]

\* a slip: an existing file is opened as it is, not truncated
FsCreate_keep(f, path) ==
    [p \in (DOMAIN f) \cup {path} |-> IF p \in DOMAIN f THEN f[p] ELSE <<>>]

\* File::create: the file exists afterwards and is empty
FsCreate(f, path) ==
    [p \in (DOMAIN f) \cup {path} |-> IF p = path THEN <<>> ELSE f[p]]

\* a write of bytes at offset pos of a file with the given contents
WriteAt(contents, pos, bytes) ==
    LET padded == IF Len(contents) < pos
                  THEN contents \o Rep(0, pos - Len(contents)) ELSE contents
    IN  SubSeq(padded, 1, pos) \o bytes
            \o SubSeq(padded, pos + Len(bytes) + 1, Len(padded))

\* the file system after handle h has written bytes
FsWrite(f, h, bytes) ==
    IF bytes = <<>> THEN f
    ELSE [f EXCEPT ![target_path[h]] = WriteAt(@, Len(sink[h]), bytes)]

\* a slip: the bytes that arrived with the header are dropped
remaining_dropped(buf, used) == <<>>

\* &buffer[consumed..]
remaining(buf, used) == SubSeq(buf, used + 1, Len(buf))

\* the positions of a running handler
Running == {"await_header", "create", "write_rest", "body", "write_chunk", "flush"}

\* a slip: an error in one handler takes the other running handlers down
Finish_abort_all(h, to, what) ==
    /\ pc' = [g \in Streams |->
                 IF g = h THEN to
                 ELSE IF pc[g] \in Running /\ to \notin {"received", "warned"}
                      THEN "read_failed" ELSE pc[g]]
    /\ report' = [report EXCEPT ![h] = what]

\* the handler of stream h ends at `to` having printed `what`
Finish(h, to, what) ==
    /\ pc' = [pc EXCEPT ![h] = to]
    /\ report' = [report EXCEPT ![h] = what]

\* main line 52-68: a connection is accepted and its task spawned; the task
\* returns at once if the peer address cannot be read
AcceptConnection(c) ==
    /\ listening
    /\ conn[c] = "pending"
    /\ \E ok \in BOOLEAN : conn' = [conn EXCEPT ![c] = IF ok THEN "open" ELSE "closed"]
    /\ UNCHANGED <<listening, streamVars, fs>>
    /\ UNCHANGED <<codecVars, sanVars, clientVars, certVars>>

\* main line 52, 71: server.accept() gives None: the loop ends, main returns
\* Ok(()) and the runtime is dropped with every task at the await it stands
\* at; nothing is reported.  An open or a write already handed to a blocking
\* task may still be carried out (see create_open, write_to).
AcceptNone ==
    /\ listening
    /\ listening' = FALSE
    /\ UNCHANGED <<conn, streamVars, fs>>
    /\ UNCHANGED <<codecVars, sanVars, clientVars, certVars>>

\* main line 64-67: a stream is accepted and handle_stream spawned
AcceptStream(h) ==
    /\ listening
    /\ conn[ConnOf(h)] = "open"
    /\ pc[h] = "idle"
    /\ pc' = [pc EXCEPT ![h] = "await_header"]
    /\ buffer' = [buffer EXCEPT ![h] = <<>>]
    /\ UNCHANGED <<listening, conn, wire, rcvd, header, consumed, target_path, written,
                   chunk, accepted, file, sink, report, fs>>
    /\ UNCHANGED <<codecVars, sanVars, clientVars, certVars>>

\* main line 64: accept_bidirectional_stream gives Ok(None) or Err: the
\* connection's task ends, the handlers it spawned go on
ConnectionEnds(c) ==
    /\ listening
    /\ conn[c] = "open"
    /\ conn' = [conn EXCEPT ![c] = "closed"]
    /\ UNCHANGED <<listening, streamVars, fs>>
    /\ UNCHANGED <<codecVars, sanVars, clientVars, certVars>>

\* a slip: the delivery is probed for a header, not the accumulated buffer
RecvHeaderData_probe_delivery(h) ==
    /\ listening
    /\ pc[h] = "await_header"
    /\ \E n \in 1..(Len(wire[h]) - rcvd[h]) :
          LET data == SubSeq(wire[h], rcvd[h] + 1, rcvd[h] + n)
              buf  == buffer[h] \o data
              d    == try_decode_header(data)
          IN  /\ rcvd' = [rcvd EXCEPT ![h] = @ + n]
              /\ buffer' = [buffer EXCEPT ![h] = buf]
              /\ IF d.some
                 THEN /\ header' = [header EXCEPT ![h] = d.header]
                      /\ consumed' = [consumed EXCEPT ![h] = d.consumed]
                      /\ target_path' = [target_path EXCEPT ![h] =
                             join(OUTPUT_DIR, sanitize_file_name(d.header.file_name))]
                      /\ file' = [file EXCEPT ![h] = Opening]
                      /\ pc' = [pc EXCEPT ![h] = "create"]
                 ELSE UNCHANGED <<header, consumed, target_path, file, pc>>
    /\ UNCHANGED <<listening, conn, wire, written, chunk, accepted, sink, report, fs>>
    /\ UNCHANGED <<codecVars, sanVars, clientVars, certVars>>

\* handle_stream line 84-92: Ok(Some(data)); lines 104-105 follow the break,
\* and receive_file runs up to File::create (line 120), which hands the open
\* of target_path to a blocking task
RecvHeaderData(h) ==
    /\ listening
    /\ pc[h] = "await_header"
    /\ \E n \in 1..(Len(wire[h]) - rcvd[h]) :
          LET data == SubSeq(wire[h], rcvd[h] + 1, rcvd[h] + n)
              buf  == buffer[h] \o data
              d    == try_decode_header(buf)
          IN  /\ rcvd' = [rcvd EXCEPT ![h] = @ + n]
              /\ buffer' = [buffer EXCEPT ![h] = buf]
              /\ IF d.some
                 THEN /\ header' = [header EXCEPT ![h] = d.header]
                      /\ consumed' = [consumed EXCEPT ![h] = d.consumed]
                      /\ target_path' = [target_path EXCEPT ![h] =
                             join(OUTPUT_DIR, sanitize_file_name(d.header.file_name))]
                      /\ file' = [file EXCEPT ![h] = Opening]
                      /\ pc' = [pc EXCEPT ![h] = "create"]
                 ELSE UNCHANGED <<header, consumed, target_path, file, pc>>
    /\ UNCHANGED <<listening, conn, wire, written, chunk, accepted, sink, report, fs>>
    /\ UNCHANGED <<codecVars, sanVars, clientVars, certVars>>

\* a slip: the end of the stream before the header is taken for a header
RecvHeaderEof_goes_on(h) ==
    /\ listening
    /\ pc[h] = "await_header"
    /\ rcvd[h] = Len(wire[h])
    /\ pc' = [pc EXCEPT ![h] = "create"]
    /\ file' = [file EXCEPT ![h] = Opening]
    /\ UNCHANGED <<listening, conn, wire, rcvd, buffer, header, consumed, target_path,
                   written, chunk, accepted, sink, report, fs>>
    /\ UNCHANGED <<codecVars, sanVars, clientVars, certVars>>

\* handle_stream line 93-96: Ok(None) before a header was decoded
RecvHeaderEof(h) ==
    /\ listening
    /\ pc[h] = "await_header"
    /\ rcvd[h] = Len(wire[h])
    /\ Finish(h, "closed_before_header", ClosedBeforeHeader)
    /\ UNCHANGED <<listening, conn, wire, rcvd, buffer, header, consumed, target_path,
                   written, chunk, accepted, file, sink, fs>>
    /\ UNCHANGED <<codecVars, sanVars, clientVars, certVars>>

\* handle_stream line 97-100: Err(err)
RecvHeaderErr(h) ==
    /\ listening
    /\ pc[h] = "await_header"
    /\ Finish(h, "read_failed", ReadFailed)
    /\ UNCHANGED <<listening, conn, wire, rcvd, buffer, header, consumed, target_path,
                   written, chunk, accepted, file, sink, fs>>
    /\ UNCHANGED <<codecVars, sanVars, clientVars, certVars>>

\* the blocking task File::create (line 120) handed the open to: the file
\* is opened with O_CREAT|O_TRUNC, so it exists and is empty afterwards, or
\* the open fails.  The task runs whether or not main still runs; h's handle
\* starts at offset 0.
create_open(h) ==
    /\ file[h] = Opening
    /\ \/ /\ fs' = FsCreate(fs, target_path[h])
          /\ sink' = [sink EXCEPT ![h] = <<>>]
          /\ file' = [file EXCEPT ![h] = Opened("ok")]
       \/ /\ file' = [file EXCEPT ![h] = Opened("err")]
          /\ UNCHANGED <<fs, sink>>
    /\ UNCHANGED <<listening, conn, pc, wire, rcvd, buffer, header, consumed, target_path,
                   written, chunk, accepted, report>>
    /\ UNCHANGED <<codecVars, sanVars, clientVars, certVars>>

\* receive_file line 120-123: File::create(&target_path).await? resumes with
\* the result of the open; written starts at 0
CreateFile(h) ==
    /\ listening
    /\ pc[h] = "create"
    /\ file[h].state = "Opening"
    /\ file[h].res # "pending"
    /\ IF file[h].res = "ok"
       THEN /\ written' = [written EXCEPT ![h] = 0]
            /\ file' = [file EXCEPT ![h] = Idle]
            /\ pc' = [pc EXCEPT ![h] =
                   IF Len(buffer[h]) > consumed[h] THEN "write_rest" ELSE "body"]
            /\ UNCHANGED report
       ELSE /\ Finish(h, "store_failed", StoreFailed("create"))
            /\ file' = [file EXCEPT ![h] = NoFile]
            /\ UNCHANGED written
    /\ UNCHANGED <<listening, conn, wire, rcvd, buffer, header, consumed, target_path,
                   chunk, accepted, sink, fs>>
    /\ UNCHANGED <<codecVars, sanVars, clientVars, certVars>>

\* the blocking task of h's file handle (tokio Buf::write_to): write_all on
\* the std file at the handle's own offset, then the buffer is cleared.  All
\* the bytes land, or some of them and the write fails.  The task runs to
\* its end whether or not the handler or main still runs.
write_to(h) ==
    /\ file[h].state = "Busy"
    /\ file[h].res = "pending"
    /\ \/ /\ fs' = FsWrite(fs, h, file[h].buf)
          /\ sink' = [sink EXCEPT ![h] = @ \o file[h].buf]
          /\ file' = [file EXCEPT ![h] = Done("ok")]
       \/ \E m \in 0..(Len(file[h].buf) - 1) :
             /\ fs' = FsWrite(fs, h, SubSeq(file[h].buf, 1, m))
             /\ sink' = [sink EXCEPT ![h] = @ \o SubSeq(file[h].buf, 1, m)]
             /\ file' = [file EXCEPT ![h] = Done("err")]
    /\ UNCHANGED <<listening, conn, pc, wire, rcvd, buffer, header, consumed, target_path,
                   written, chunk, accepted, report>>
    /\ UNCHANGED <<codecVars, sanVars, clientVars, certVars>>

\* a slip: the counter counts the writes, not the bytes
WriteAll_count_writes(h, bytes, next) ==
    /\ file[h].res # "pending"
    /\ IF file[h].res = "err"
       THEN /\ file' = [file EXCEPT ![h] = Idle]
            /\ Finish(h, "store_failed", StoreFailed("write"))
            /\ UNCHANGED <<written, accepted, chunk>>
       ELSE LET n == Min({Len(bytes) - accepted[h], MAX_BUF_SIZE})
            IN  /\ file' = [file EXCEPT ![h] =
                       Busy(SubSeq(bytes, accepted[h] + 1, accepted[h] + n))]
                /\ IF accepted[h] + n = Len(bytes)
                   THEN /\ accepted' = [accepted EXCEPT ![h] = 0]
                        /\ chunk' = [chunk EXCEPT ![h] = <<>>]
                        /\ written' = [written EXCEPT ![h] = @ + 1]
                        /\ pc' = [pc EXCEPT ![h] = next]
                   ELSE /\ accepted' = [accepted EXCEPT ![h] = @ + n]
                        /\ UNCHANGED <<chunk, written, pc>>
                /\ UNCHANGED report

\* file.write_all(bytes).await? by handler h, then written += len and on to
\* `next`.  One poll of write_all (tokio File::poll_write): it waits for the
\* write in flight; returns its error if it failed; else copies at most
\* MAX_BUF_SIZE of the bytes not yet accepted into the handle's buffer, hands
\* them to a blocking task and counts them as written.  write_all returns
\* once all of bytes is accepted, before they are in the file.
WriteAll(h, bytes, next) ==
    /\ file[h].res # "pending"
    /\ IF file[h].res = "err"
       THEN /\ file' = [file EXCEPT ![h] = Idle]
            /\ Finish(h, "store_failed", StoreFailed("write"))
            /\ UNCHANGED <<written, accepted, chunk>>
       ELSE LET n == Min({Len(bytes) - accepted[h], MAX_BUF_SIZE})
            IN  /\ file' = [file EXCEPT ![h] =
                       Busy(SubSeq(bytes, accepted[h] + 1, accepted[h] + n))]
                /\ IF accepted[h] + n = Len(bytes)
                   THEN /\ accepted' = [accepted EXCEPT ![h] = 0]
                        /\ chunk' = [chunk EXCEPT ![h] = <<>>]
                        /\ written' = [written EXCEPT ![h] = @ + Len(bytes)]
                        /\ pc' = [pc EXCEPT ![h] = next]
                   ELSE /\ accepted' = [accepted EXCEPT ![h] = @ + n]
                        /\ UNCHANGED <<chunk, written, pc>>
                /\ UNCHANGED report

\* receive_file line 123-127: the buffered bytes after the header
WriteRest(h) ==
    /\ listening
    /\ pc[h] = "write_rest"
    /\ WriteAll(h, remaining(buffer[h], consumed[h]), "body")
    /\ UNCHANGED <<listening, conn, wire, rcvd, buffer, header, consumed, target_path,
                   sink, fs>>
    /\ UNCHANGED <<codecVars, sanVars, clientVars, certVars>>

\* a slip: a chunk of the body that begins with a header starts a new transfer
RecvBodyData_reparse(h) ==
    /\ listening
    /\ pc[h] = "body"
    /\ \E n \in 1..(Len(wire[h]) - rcvd[h]) :
          LET data == SubSeq(wire[h], rcvd[h] + 1, rcvd[h] + n)
              d    == try_decode_header(data)
          IN  /\ rcvd' = [rcvd EXCEPT ![h] = @ + n]
              /\ IF d.some
                 THEN /\ header' = [header EXCEPT ![h] = d.header]
                      /\ chunk' = [chunk EXCEPT ![h] = remaining(data, d.consumed)]
                 ELSE /\ UNCHANGED header
                      /\ chunk' = [chunk EXCEPT ![h] = data]
    /\ pc' = [pc EXCEPT ![h] = "write_chunk"]
    /\ UNCHANGED <<listening, conn, wire, buffer, consumed, target_path, written,
                   accepted, file, sink, report, fs>>
    /\ UNCHANGED <<codecVars, sanVars, clientVars, certVars>>

\* receive_file line 129: stream.receive().await? gives Some(chunk)
RecvBodyData(h) ==
    /\ listening
    /\ pc[h] = "body"
    /\ \E n \in 1..(Len(wire[h]) - rcvd[h]) :
          /\ rcvd' = [rcvd EXCEPT ![h] = @ + n]
          /\ chunk' = [chunk EXCEPT ![h] = SubSeq(wire[h], rcvd[h] + 1, rcvd[h] + n)]
    /\ pc' = [pc EXCEPT ![h] = "write_chunk"]
    /\ UNCHANGED <<listening, conn, wire, buffer, header, consumed, target_path, written,
                   accepted, file, sink, report, fs>>
    /\ UNCHANGED <<codecVars, sanVars, clientVars, certVars>>

\* receive_file line 130-131: the chunk is written and counted
WriteChunk(h) ==
    /\ listening
    /\ pc[h] = "write_chunk"
    /\ WriteAll(h, chunk[h], "body")
    /\ UNCHANGED <<listening, conn, wire, rcvd, buffer, header, consumed, target_path,
                   sink, fs>>
    /\ UNCHANGED <<codecVars, sanVars, clientVars, certVars>>

\* a slip: the partial file is removed when the transport fails
RecvBodyErr_cleanup(h) ==
    /\ listening
    /\ pc[h] = "body"
    /\ Finish(h, "store_failed", StoreFailed("receive"))
    /\ fs' = [p \in (DOMAIN fs) \ {target_path[h]} |-> fs[p]]
    /\ UNCHANGED <<listening, conn, wire, rcvd, buffer, header, consumed, target_path,
                   written, chunk, accepted, file, sink>>
    /\ UNCHANGED <<codecVars, sanVars, clientVars, certVars>>

\* receive_file line 129: stream.receive().await? is an Err; the file handle
\* is dropped, the write in flight is not waited for
RecvBodyErr(h) ==
    /\ listening
    /\ pc[h] = "body"
    /\ Finish(h, "store_failed", StoreFailed("receive"))
    /\ UNCHANGED <<listening, conn, wire, rcvd, buffer, header, consumed, target_path,
                   written, chunk, accepted, file, sink, fs>>
    /\ UNCHANGED <<codecVars, sanVars, clientVars, certVars>>

\* receive_file line 129: None ends the loop
RecvBodyEof(h) ==
    /\ listening
    /\ pc[h] = "body"
    /\ rcvd[h] = Len(wire[h])
    /\ pc' = [pc EXCEPT ![h] = "flush"]
    /\ UNCHANGED <<listening, conn, wire, rcvd, buffer, header, consumed, target_path,
                   written, chunk, accepted, file, sink, report, fs>>
    /\ UNCHANGED <<codecVars, sanVars, clientVars, certVars>>

\* a slip: at least the declared size counts as a match
Finalize_atleast(h) ==
    IF written[h] >= header[h].file_size[1]
    THEN Finish(h, "received", Received(header[h], target_path[h]))
    ELSE Finish(h, "warned", Warning(header[h], written[h]))

\* receive_file line 136-148: the comparison after the flush
Finalize(h) ==
    IF U64(written[h]) = header[h].file_size
    THEN Finish(h, "received", Received(header[h], target_path[h]))
    ELSE Finish(h, "warned", Warning(header[h], written[h]))

\* receive_file line 134-150: file.flush().await? (tokio File::poll_flush)
\* waits for the write in flight and returns its result; then the comparison
Flush(h) ==
    /\ listening
    /\ pc[h] = "flush"
    /\ file[h].res # "pending"
    /\ file' = [file EXCEPT ![h] = Idle]
    /\ IF file[h].res = "err"
       THEN Finish(h, "store_failed", StoreFailed("flush"))
       ELSE Finalize(h)
    /\ UNCHANGED <<listening, conn, wire, rcvd, buffer, header, consumed, target_path,
                   written, chunk, accepted, sink, fs>>
    /\ UNCHANGED <<codecVars, sanVars, clientVars, certVars>>

(***************************************************************************)
(* The sender (src/bin/client.rs): main, one statement that can fail per   *)
(* step.  cl_pc names the statement main is about to run.                  *)
(***************************************************************************)
\* vec![0u8; 64 * 1024]
READ_BUF == 65536

\* longest file, in bytes, the sender is given
MaxFile == 3

\* args.file: "a", "d/a", "d/e-acute", "..", and names of 256, 65535 and
\* 65536 bytes
ClientPaths == { <<97>>, <<100, SEP, 97>>, <<100, SEP, 195, 169>>, <<DOT, DOT>>,
                 Rep(97, 256), <<100, SEP>> \o Rep(97, U16_MAX), Rep(97, U16_MAX + 1) }

\* the file of k bytes
FileOf(k) == [i \in 1..k |-> 64 + i]

\* main fails at statement `at`: the error is returned, nothing else runs
ClFail(at) ==
    /\ cl_pc' = "failed"
    /\ cl_err' = at

ClGo(to) ==
    /\ cl_pc' = to
    /\ UNCHANGED cl_err

\* line 40-42: the CA certificate must exist
ClCheckCa ==
    /\ cl_pc = "check_ca"
    /\ ClGo("metadata") \/ ClFail("ca_cert")
    /\ UNCHANGED <<cl_file, cl_name, cl_size, cl_header, cl_conn, cl_stream,
                   cl_sent, cl_off, cl_buf, cl_total>>
    /\ UNCHANGED <<codecVars, sanVars, serverVars, certVars>>

\* what metadata.len() may be: the length of what the reads return later, or
\* any other length (the path names a FIFO, whose length is 0, or the file
\* changes before it is read)
MetaSizes == { U64(k) : k \in 0..MaxFile } \cup { <<0, 0, 1, 0>> }

\* line 44: fs::metadata(&args.file).await?  The length it gives is announced
\* in the header; the bytes sent are those the reads of line 75 return
ClMetadata ==
    /\ cl_pc = "metadata"
    /\ \/ ClGo("file_name") /\ \E z \in MetaSizes : cl_size' = z
       \/ ClFail("metadata") /\ UNCHANGED cl_size
    /\ UNCHANGED <<cl_file, cl_name, cl_header, cl_conn, cl_stream,
                   cl_sent, cl_off, cl_buf, cl_total>>
    /\ UNCHANGED <<codecVars, sanVars, serverVars, certVars>>

\* line 45-50: args.file.file_name().ok_or_else(..)?.to_string_lossy(), for
\* each value of args.file
ClFileName ==
    /\ cl_pc = "file_name"
    /\ \E path \in ClientPaths :
          LET f == file_name(path)
          IN  IF f.some
              THEN ClGo("encode") /\ cl_name' = from_utf8_lossy(f.name)
              ELSE ClFail("file_name") /\ UNCHANGED cl_name
    /\ UNCHANGED <<cl_file, cl_size, cl_header, cl_conn, cl_stream,
                   cl_sent, cl_off, cl_buf, cl_total>>
    /\ UNCHANGED <<codecVars, sanVars, serverVars, certVars>>

\* line 52: let header = encode_header(&file_name, metadata.len())?
ClEncode ==
    /\ cl_pc = "encode"
    /\ cl_header' = encode_header(cl_name, cl_size)
    /\ IF cl_header'.ok THEN ClGo("build") ELSE ClFail("encode")
    /\ UNCHANGED <<cl_file, cl_name, cl_size, cl_conn, cl_stream,
                   cl_sent, cl_off, cl_buf, cl_total>>
    /\ UNCHANGED <<codecVars, sanVars, serverVars, certVars>>

\* line 54-57: Client::builder()...start()?
ClBuild ==
    /\ cl_pc = "build"
    /\ ClGo("connect") \/ ClFail("build")
    /\ UNCHANGED <<cl_file, cl_name, cl_size, cl_header, cl_conn, cl_stream,
                   cl_sent, cl_off, cl_buf, cl_total>>
    /\ UNCHANGED <<codecVars, sanVars, serverVars, certVars>>

\* line 64-65: client.connect(connect).await?
ClConnect ==
    /\ cl_pc = "connect"
    /\ \/ ClGo("open_stream") /\ cl_conn' = TRUE
       \/ ClFail("connect") /\ UNCHANGED cl_conn
    /\ UNCHANGED <<cl_file, cl_name, cl_size, cl_header, cl_stream,
                   cl_sent, cl_off, cl_buf, cl_total>>
    /\ UNCHANGED <<codecVars, sanVars, serverVars, certVars>>

\* line 67: connection.open_bidirectional_stream().await?
ClOpenStream ==
    /\ cl_pc = "open_stream"
    /\ \/ ClGo("send_header") /\ cl_stream' = "open"
       \/ ClFail("open_stream") /\ UNCHANGED cl_stream
    /\ UNCHANGED <<cl_file, cl_name, cl_size, cl_header, cl_conn,
                   cl_sent, cl_off, cl_buf, cl_total>>
    /\ UNCHANGED <<codecVars, sanVars, serverVars, certVars>>

\* a slip: the header is put on the stream twice
ClSendHeader_twice ==
    /\ cl_pc = "send_header"
    /\ \/ ClGo("open_file") /\ cl_sent' = cl_sent \o cl_header.bytes \o cl_header.bytes
       \/ ClFail("send_header") /\ UNCHANGED cl_sent
    /\ UNCHANGED <<cl_file, cl_name, cl_size, cl_header, cl_conn, cl_stream,
                   cl_off, cl_buf, cl_total>>
    /\ UNCHANGED <<codecVars, sanVars, serverVars, certVars>>

\* line 68: stream.send(Bytes::from(header)).await?
ClSendHeader ==
    /\ cl_pc = "send_header"
    /\ \/ ClGo("open_file") /\ cl_sent' = cl_sent \o cl_header.bytes
       \/ ClFail("send_header") /\ UNCHANGED cl_sent
    /\ UNCHANGED <<cl_file, cl_name, cl_size, cl_header, cl_conn, cl_stream,
                   cl_off, cl_buf, cl_total>>
    /\ UNCHANGED <<codecVars, sanVars, serverVars, certVars>>

\* line 70-72: fs::File::open(&args.file).await?; total_sent = 0.  cl_file
\* is what the file opened here holds up to its end
ClOpenFile ==
    /\ cl_pc = "open_file"
    /\ \/ /\ ClGo("read")
          /\ \E k \in 0..MaxFile : cl_file' = FileOf(k)
          /\ cl_off' = 0 /\ cl_total' = 0
       \/ ClFail("open_file") /\ UNCHANGED <<cl_file, cl_off, cl_total>>
    /\ UNCHANGED <<cl_name, cl_size, cl_header, cl_conn, cl_stream,
                   cl_sent, cl_buf>>
    /\ UNCHANGED <<codecVars, sanVars, serverVars, certVars>>

\* line 75: reader.read(&mut buffer).await? returns 1..64K bytes of the file
ClRead ==
    /\ cl_pc = "read"
    /\ \E n \in 1..(Len(cl_file) - cl_off) :
          /\ n <= READ_BUF
          /\ cl_buf' = SubSeq(cl_file, cl_off + 1, cl_off + n)
          /\ cl_off' = cl_off + n
    /\ ClGo("send")
    /\ UNCHANGED <<cl_file, cl_name, cl_size, cl_header, cl_conn, cl_stream,
                   cl_sent, cl_total>>
    /\ UNCHANGED <<codecVars, sanVars, serverVars, certVars>>

\* line 80-83: stream.send(Bytes::copy_from_slice(&buffer[..bytes_read]))
\* .await?; total_sent += bytes_read
ClSend ==
    /\ cl_pc = "send"
    /\ \/ /\ cl_sent' = cl_sent \o cl_buf
          /\ cl_total' = cl_total + Len(cl_buf)
          /\ ClGo("read")
       \/ /\ ClFail("send")
          /\ UNCHANGED <<cl_sent, cl_total>>
    /\ UNCHANGED <<cl_file, cl_name, cl_size, cl_header, cl_conn, cl_stream,
                   cl_off, cl_buf>>
    /\ UNCHANGED <<codecVars, sanVars, serverVars, certVars>>

\* line 75: reader.read(..).await? fails
ClReadErr ==
    /\ cl_pc = "read"
    /\ ClFail("read")
    /\ UNCHANGED <<cl_file, cl_name, cl_size, cl_header, cl_conn, cl_stream,
                   cl_sent, cl_off, cl_buf, cl_total>>
    /\ UNCHANGED <<codecVars, sanVars, serverVars, certVars>>

\* line 76-78: bytes_read == 0 at the end of the file
ClReadEof ==
    /\ cl_pc = "read"
    /\ cl_off = Len(cl_file)
    /\ ClGo("close")
    /\ UNCHANGED <<cl_file, cl_name, cl_size, cl_header, cl_conn, cl_stream,
                   cl_sent, cl_off, cl_buf, cl_total>>
    /\ UNCHANGED <<codecVars, sanVars, serverVars, certVars>>

\* line 86-92: stream.close().await?; the summary is printed
ClClose ==
    /\ cl_pc = "close"
    /\ \/ ClGo("done") /\ cl_stream' = "closed"
       \/ ClFail("close") /\ UNCHANGED cl_stream
    /\ UNCHANGED <<cl_file, cl_name, cl_size, cl_header, cl_conn,
                   cl_sent, cl_off, cl_buf, cl_total>>
    /\ UNCHANGED <<codecVars, sanVars, serverVars, certVars>>

(***************************************************************************)
(* The certificate bootstrap (src/lib.rs), driven on its own (SpecCert).   *)
(***************************************************************************)
\* the paths a caller may pass, the defaults of the server
CertPaths == { "certs/server-cert.pem", "certs/server-key.pem" }

\* how many times the bootstrap is called
MaxCalls == 3

Absent == [exists |-> FALSE, data |-> [kind |-> "none", gen |-> 0]]

FileWith(d) == [exists |-> TRUE, data |-> d]

\* what was at a path before the program ran
Old == [kind |-> "old", gen |-> 0]

\* a file whose write of data failed half-way
Partial(data) ==
    [kind |-> IF data.kind = "cert" THEN "partial_cert" ELSE "partial_key",
     gen |-> data.gen]

\* cert.serialize_pem() of the n-th generated certificate
CertPem(n) == [kind |-> "cert", gen |-> n]

\* cert.serialize_private_key_pem() of the n-th generated key pair
KeyPem(n) == [kind |-> "key", gen |-> n]

\* a slip: one of the two files is enough
either_exists(files, cert_path, key_path) ==
    files[cert_path].exists \/ files[key_path].exists

\* cert_path.exists() && key_path.exists()
both_exist(files, cert_path, key_path) ==
    files[cert_path].exists /\ files[key_path].exists

\* fs::write(path, data)?: the file holds data afterwards
fs_write(files, path, data) == [files EXCEPT ![path] = FileWith(data)]

\* what a failed fs::write may leave: the file as it was, or a part of data
fs_write_failed(files, path, data) ==
    { files, [files EXCEPT ![path] = FileWith(Partial(data))] }

\* one call of ensure_self_signed_certificate(cert_path, key_path, ..).
\* Every call that gets to Certificate::from_params generates a key pair of
\* its own: the ct_gen-th of the run
EnsureCertificate ==
    /\ ct_calls < MaxCalls
    /\ ct_calls' = ct_calls + 1
    /\ IF both_exist(ct_files, ct_cert_path, ct_key_path)
       THEN /\ ct_result' = "ok"
            /\ UNCHANGED <<ct_files, ct_gen>>
       ELSE \/ \* create_dir_all or from_params fails
               /\ ct_result' = "err"
               /\ UNCHANGED <<ct_files, ct_gen>>
            \/ \* the certificate is generated, serialize_pem fails
               /\ ct_result' = "err"
               /\ ct_gen' = ct_gen + 1
               /\ UNCHANGED ct_files
            \/ \* fs::write(cert_path, cert_pem) fails
               /\ ct_result' = "err"
               /\ ct_gen' = ct_gen + 1
               /\ ct_files' \in fs_write_failed(ct_files, ct_cert_path, CertPem(ct_gen'))
            \/ \* fs::write(key_path, key_pem) fails
               /\ ct_result' = "err"
               /\ ct_gen' = ct_gen + 1
               /\ ct_files' \in fs_write_failed(
                      fs_write(ct_files, ct_cert_path, CertPem(ct_gen')),
                      ct_key_path, KeyPem(ct_gen'))
            \/ \* both files are written
               /\ ct_result' = "ok"
               /\ ct_gen' = ct_gen + 1
               /\ ct_files' = fs_write(fs_write(ct_files, ct_cert_path, CertPem(ct_gen')),
                                       ct_key_path, KeyPem(ct_gen'))
    /\ UNCHANGED <<ct_cert_path, ct_key_path>>
    /\ UNCHANGED <<codecVars, sanVars, serverVars, clientVars>>

(***************************************************************************)
(* Specifications                                                          *)
(***************************************************************************)
NextCodec == Encode \/ DecodePrefix \/ DecodeWithTail \/ DecodeAgain

InitSpecCodec ==
    /\ cd_pc = "input"
    /\ cd_name \in CodecNames
    /\ cd_size \in CodecSizes
    /\ cd_enc = Err("none")
    /\ cd_buf = <<>>
    /\ cd_dec = None
    /\ cd_raw = <<>>
    /\ cd_again = None
    /\ san_pc = "off"
    /\ san_in = <<>>
    /\ san_out = <<>>
    /\ listening = FALSE
    /\ conn = [c \in Conns |-> "pending"]
    /\ pc = [h \in Streams |-> "idle"]
    /\ wire = [h \in Streams |-> <<>>]
    /\ rcvd = [h \in Streams |-> 0]
    /\ buffer = [h \in Streams |-> <<>>]
    /\ header = [h \in Streams |-> NoHeader]
    /\ consumed = [h \in Streams |-> 0]
    /\ target_path = [h \in Streams |-> NoPath]
    /\ written = [h \in Streams |-> 0]
    /\ chunk = [h \in Streams |-> <<>>]
    /\ accepted = [h \in Streams |-> 0]
    /\ file = [h \in Streams |-> NoFile]
    /\ sink = [h \in Streams |-> <<>>]
    /\ report = [h \in Streams |-> NoReport]
    /\ fs = [p \in {} |-> <<>>]
    /\ cl_pc = "off"
    /\ cl_file = <<>>
    /\ cl_name = <<>>
    /\ cl_size = U64(0)
    /\ cl_header = Err("none")
    /\ cl_conn = FALSE
    /\ cl_stream = "none"
    /\ cl_sent = <<>>
    /\ cl_off = 0
    /\ cl_buf = <<>>
    /\ cl_total = 0
    /\ cl_err = "none"
    /\ ct_cert_path = "certs/server-cert.pem"
    /\ ct_key_path = "certs/server-key.pem"
    /\ ct_files = [p \in CertPaths |-> Absent]
    /\ ct_calls = 0
    /\ ct_gen = 0
    /\ ct_result = "none"

SpecCodec == InitSpecCodec /\ [][NextCodec]_vars

NextSan == Sanitize

InitSpecSan ==
    /\ cd_pc = "off"
    /\ cd_name = <<>>
    /\ cd_size = <<0, 0, 0, 0>>
    /\ cd_enc = Err("none")
    /\ cd_buf = <<>>
    /\ cd_dec = None
    /\ cd_raw = <<>>
    /\ cd_again = None
    /\ san_pc = "input"
    /\ san_in \in SanInputs
    /\ san_out = <<>>
    /\ listening = FALSE
    /\ conn = [c \in Conns |-> "pending"]
    /\ pc = [h \in Streams |-> "idle"]
    /\ wire = [h \in Streams |-> <<>>]
    /\ rcvd = [h \in Streams |-> 0]
    /\ buffer = [h \in Streams |-> <<>>]
    /\ header = [h \in Streams |-> NoHeader]
    /\ consumed = [h \in Streams |-> 0]
    /\ target_path = [h \in Streams |-> NoPath]
    /\ written = [h \in Streams |-> 0]
    /\ chunk = [h \in Streams |-> <<>>]
    /\ accepted = [h \in Streams |-> 0]
    /\ file = [h \in Streams |-> NoFile]
    /\ sink = [h \in Streams |-> <<>>]
    /\ report = [h \in Streams |-> NoReport]
    /\ fs = [p \in {} |-> <<>>]
    /\ cl_pc = "off"
    /\ cl_file = <<>>
    /\ cl_name = <<>>
    /\ cl_size = U64(0)
    /\ cl_header = Err("none")
    /\ cl_conn = FALSE
    /\ cl_stream = "none"
    /\ cl_sent = <<>>
    /\ cl_off = 0
    /\ cl_buf = <<>>
    /\ cl_total = 0
    /\ cl_err = "none"
    /\ ct_cert_path = "certs/server-cert.pem"
    /\ ct_key_path = "certs/server-key.pem"
    /\ ct_files = [p \in CertPaths |-> Absent]
    /\ ct_calls = 0
    /\ ct_gen = 0
    /\ ct_result = "none"

SpecSan == InitSpecSan /\ [][NextSan]_vars

Init ==
    /\ cd_pc = "off"
    /\ cd_name = <<>>
    /\ cd_size = <<0, 0, 0, 0>>
    /\ cd_enc = Err("none")
    /\ cd_buf = <<>>
    /\ cd_dec = None
    /\ cd_raw = <<>>
    /\ cd_again = None
    /\ san_pc = "off"
    /\ san_in = <<>>
    /\ san_out = <<>>
    /\ listening = TRUE
    /\ conn = [c \in Conns |-> "pending"]
    /\ pc = [h \in Streams |-> "idle"]
    /\ wire \in [Streams -> UNION { Wires(h) : h \in Streams }]
    /\ \A h \in Streams : wire[h] \in Wires(h)
    /\ rcvd = [h \in Streams |-> 0]
    /\ buffer = [h \in Streams |-> <<>>]
    /\ header = [h \in Streams |-> NoHeader]
    /\ consumed = [h \in Streams |-> 0]
    /\ target_path = [h \in Streams |-> NoPath]
    /\ written = [h \in Streams |-> 0]
    /\ chunk = [h \in Streams |-> <<>>]
    /\ accepted = [h \in Streams |-> 0]
    /\ file = [h \in Streams |-> NoFile]
    /\ sink = [h \in Streams |-> <<>>]
    /\ report = [h \in Streams |-> NoReport]
    /\ fs = [p \in {} |-> <<>>]
    /\ cl_pc = "off"
    /\ cl_file = <<>>
    /\ cl_name = <<>>
    /\ cl_size = U64(0)
    /\ cl_header = Err("none")
    /\ cl_conn = FALSE
    /\ cl_stream = "none"
    /\ cl_sent = <<>>
    /\ cl_off = 0
    /\ cl_buf = <<>>
    /\ cl_total = 0
    /\ cl_err = "none"
    /\ ct_cert_path = "certs/server-cert.pem"
    /\ ct_key_path = "certs/server-key.pem"
    /\ ct_files = [p \in CertPaths |-> Absent]
    /\ ct_calls = 0
    /\ ct_gen = 0
    /\ ct_result = "none"

Next ==
    \/ \E c \in Conns : AcceptConnection(c) \/ ConnectionEnds(c)
    \/ AcceptNone
    \/ \E h \in Streams :
          \/ AcceptStream(h)
          \/ RecvHeaderData(h)
          \/ RecvHeaderEof(h)
          \/ RecvHeaderErr(h)
          \/ create_open(h)
          \/ CreateFile(h)
          \/ WriteRest(h)
          \/ RecvBodyData(h)
          \/ WriteChunk(h)
          \/ RecvBodyErr(h)
          \/ RecvBodyEof(h)
          \/ Flush(h)
          \/ write_to(h)

Spec == Init /\ [][Next]_vars

\* the encoded header of an empty file "c"
NestedHeader == encode_header(<<99>>, U64(0)).bytes

\* a transfer of "b" whose body is itself an encoded header
NestedWire == encode_header(<<98>>, U64(Len(NestedHeader))).bytes \o NestedHeader

\* twelve bytes that announce a name of 65535 bytes
LongAnnounce == <<255, 255>> \o u64_to_le_bytes(U64(1)) \o <<97, 97>>

\* what the peers send to tempt the header probe: on the first stream a body
\* that looks like a header, or the start of a header that announces the
\* longest name; on the second nothing
PhaseWires(h) ==
    IF h = 1 THEN { NestedWire, LongAnnounce } ELSE { <<>> }
InitPhase ==
    /\ cd_pc = "off"
    /\ cd_name = <<>>
    /\ cd_size = <<0, 0, 0, 0>>
    /\ cd_enc = Err("none")
    /\ cd_buf = <<>>
    /\ cd_dec = None
    /\ cd_raw = <<>>
    /\ cd_again = None
    /\ san_pc = "off"
    /\ san_in = <<>>
    /\ san_out = <<>>
    /\ listening = TRUE
    /\ conn = [c \in Conns |-> "pending"]
    /\ pc = [h \in Streams |-> "idle"]
    /\ wire \in [Streams -> UNION { PhaseWires(h) : h \in Streams }]
    /\ \A h \in Streams : wire[h] \in PhaseWires(h)
    /\ rcvd = [h \in Streams |-> 0]
    /\ buffer = [h \in Streams |-> <<>>]
    /\ header = [h \in Streams |-> NoHeader]
    /\ consumed = [h \in Streams |-> 0]
    /\ target_path = [h \in Streams |-> NoPath]
    /\ written = [h \in Streams |-> 0]
    /\ chunk = [h \in Streams |-> <<>>]
    /\ accepted = [h \in Streams |-> 0]
    /\ file = [h \in Streams |-> NoFile]
    /\ sink = [h \in Streams |-> <<>>]
    /\ report = [h \in Streams |-> NoReport]
    /\ fs = [p \in {} |-> <<>>]
    /\ cl_pc = "off"
    /\ cl_file = <<>>
    /\ cl_name = <<>>
    /\ cl_size = U64(0)
    /\ cl_header = Err("none")
    /\ cl_conn = FALSE
    /\ cl_stream = "none"
    /\ cl_sent = <<>>
    /\ cl_off = 0
    /\ cl_buf = <<>>
    /\ cl_total = 0
    /\ cl_err = "none"
    /\ ct_cert_path = "certs/server-cert.pem"
    /\ ct_key_path = "certs/server-key.pem"
    /\ ct_files = [p \in CertPaths |-> Absent]
    /\ ct_calls = 0
    /\ ct_gen = 0
    /\ ct_result = "none"

\* the receiver fed with a body that is itself a header
SpecPhase == InitPhase /\ [][Next]_vars

\* stream.receive() of handler h returns the end of the stream or an error
Signal(h) ==
    \/ RecvHeaderEof(h)
    \/ RecvHeaderErr(h)
    \/ RecvBodyEof(h)
    \/ RecvBodyErr(h)

\* a file operation of handler h completes: File::create, a write_all, the
\* flush, or the blocking open or write they wait for
FileOp(h) ==
    \/ create_open(h) \/ CreateFile(h)
    \/ WriteRest(h) \/ WriteChunk(h) \/ Flush(h) \/ write_to(h)

\* what the peers send when every transfer has the name "/a": on the first
\* stream the longest body; on the second a body of one byte, or a cut header
SameWires(h) ==
    IF h = 1
    THEN { encode_header(<<SEP, 97>>, U64(1)).bytes \o Body(h, MaxBody) }
    ELSE { encode_header(<<SEP, 97>>, U64(1)).bytes \o Body(h, 1),
           SubSeq(encode_header(<<98>>, U64(1)).bytes, 1, TruncLen) }
InitSame ==
    /\ cd_pc = "off"
    /\ cd_name = <<>>
    /\ cd_size = <<0, 0, 0, 0>>
    /\ cd_enc = Err("none")
    /\ cd_buf = <<>>
    /\ cd_dec = None
    /\ cd_raw = <<>>
    /\ cd_again = None
    /\ san_pc = "off"
    /\ san_in = <<>>
    /\ san_out = <<>>
    /\ listening = TRUE
    /\ conn = [c \in Conns |-> "pending"]
    /\ pc = [h \in Streams |-> "idle"]
    /\ wire \in [Streams -> UNION { SameWires(h) : h \in Streams }]
    /\ \A h \in Streams : wire[h] \in SameWires(h)
    /\ rcvd = [h \in Streams |-> 0]
    /\ buffer = [h \in Streams |-> <<>>]
    /\ header = [h \in Streams |-> NoHeader]
    /\ consumed = [h \in Streams |-> 0]
    /\ target_path = [h \in Streams |-> NoPath]
    /\ written = [h \in Streams |-> 0]
    /\ chunk = [h \in Streams |-> <<>>]
    /\ accepted = [h \in Streams |-> 0]
    /\ file = [h \in Streams |-> NoFile]
    /\ sink = [h \in Streams |-> <<>>]
    /\ report = [h \in Streams |-> NoReport]
    /\ fs = [p \in {} |-> <<>>]
    /\ cl_pc = "off"
    /\ cl_file = <<>>
    /\ cl_name = <<>>
    /\ cl_size = U64(0)
    /\ cl_header = Err("none")
    /\ cl_conn = FALSE
    /\ cl_stream = "none"
    /\ cl_sent = <<>>
    /\ cl_off = 0
    /\ cl_buf = <<>>
    /\ cl_total = 0
    /\ cl_err = "none"
    /\ ct_cert_path = "certs/server-cert.pem"
    /\ ct_key_path = "certs/server-key.pem"
    /\ ct_files = [p \in CertPaths |-> Absent]
    /\ ct_calls = 0
    /\ ct_gen = 0
    /\ ct_result = "none"

\* the receiver when all transfers go to the same destination
SpecSame == InitSame /\ [][Next]_vars

\* what the peers send when the handlers are watched to their end: on the
\* first stream the longest transfer; on the second a transfer of one byte,
\* or a cut header
LiveWires(h) ==
    IF h = 1
    THEN { encode_header(<<SEP, 97>>, U64(1)).bytes \o Body(h, MaxBody) }
    ELSE { encode_header(<<SEP, 97>>, U64(1)).bytes \o Body(h, 1),
           SubSeq(encode_header(<<98>>, U64(1)).bytes, 1, TruncLen) }
InitLive ==
    /\ cd_pc = "off"
    /\ cd_name = <<>>
    /\ cd_size = <<0, 0, 0, 0>>
    /\ cd_enc = Err("none")
    /\ cd_buf = <<>>
    /\ cd_dec = None
    /\ cd_raw = <<>>
    /\ cd_again = None
    /\ san_pc = "off"
    /\ san_in = <<>>
    /\ san_out = <<>>
    /\ listening = TRUE
    /\ conn = [c \in Conns |-> "pending"]
    /\ pc = [h \in Streams |-> "idle"]
    /\ wire \in [Streams -> UNION { LiveWires(h) : h \in Streams }]
    /\ \A h \in Streams : wire[h] \in LiveWires(h)
    /\ rcvd = [h \in Streams |-> 0]
    /\ buffer = [h \in Streams |-> <<>>]
    /\ header = [h \in Streams |-> NoHeader]
    /\ consumed = [h \in Streams |-> 0]
    /\ target_path = [h \in Streams |-> NoPath]
    /\ written = [h \in Streams |-> 0]
    /\ chunk = [h \in Streams |-> <<>>]
    /\ accepted = [h \in Streams |-> 0]
    /\ file = [h \in Streams |-> NoFile]
    /\ sink = [h \in Streams |-> <<>>]
    /\ report = [h \in Streams |-> NoReport]
    /\ fs = [p \in {} |-> <<>>]
    /\ cl_pc = "off"
    /\ cl_file = <<>>
    /\ cl_name = <<>>
    /\ cl_size = U64(0)
    /\ cl_header = Err("none")
    /\ cl_conn = FALSE
    /\ cl_stream = "none"
    /\ cl_sent = <<>>
    /\ cl_off = 0
    /\ cl_buf = <<>>
    /\ cl_total = 0
    /\ cl_err = "none"
    /\ ct_cert_path = "certs/server-cert.pem"
    /\ ct_key_path = "certs/server-key.pem"
    /\ ct_files = [p \in CertPaths |-> Absent]
    /\ ct_calls = 0
    /\ ct_gen = 0
    /\ ct_result = "none"

\* the receiver when the transport delivers the end of the stream or an
\* error to every handler that waits for it long enough, and every file
\* operation completes
SpecLive ==
    InitLive /\ [][Next]_vars
             /\ \A h \in Streams : WF_vars(Signal(h)) /\ WF_vars(FileOp(h))

InitSpecClient ==
    /\ cd_pc = "off"
    /\ cd_name = <<>>
    /\ cd_size = <<0, 0, 0, 0>>
    /\ cd_enc = Err("none")
    /\ cd_buf = <<>>
    /\ cd_dec = None
    /\ cd_raw = <<>>
    /\ cd_again = None
    /\ san_pc = "off"
    /\ san_in = <<>>
    /\ san_out = <<>>
    /\ listening = FALSE
    /\ conn = [c \in Conns |-> "pending"]
    /\ pc = [h \in Streams |-> "idle"]
    /\ wire = [h \in Streams |-> <<>>]
    /\ rcvd = [h \in Streams |-> 0]
    /\ buffer = [h \in Streams |-> <<>>]
    /\ header = [h \in Streams |-> NoHeader]
    /\ consumed = [h \in Streams |-> 0]
    /\ target_path = [h \in Streams |-> NoPath]
    /\ written = [h \in Streams |-> 0]
    /\ chunk = [h \in Streams |-> <<>>]
    /\ accepted = [h \in Streams |-> 0]
    /\ file = [h \in Streams |-> NoFile]
    /\ sink = [h \in Streams |-> <<>>]
    /\ report = [h \in Streams |-> NoReport]
    /\ fs = [p \in {} |-> <<>>]
    /\ cl_pc = "check_ca"
    /\ cl_file = <<>>
    /\ cl_name = <<>>
    /\ cl_size = U64(0)
    /\ cl_header = Err("none")
    /\ cl_conn = FALSE
    /\ cl_stream = "none"
    /\ cl_sent = <<>>
    /\ cl_off = 0
    /\ cl_buf = <<>>
    /\ cl_total = 0
    /\ cl_err = "none"
    /\ ct_cert_path = "certs/server-cert.pem"
    /\ ct_key_path = "certs/server-key.pem"
    /\ ct_files = [p \in CertPaths |-> Absent]
    /\ ct_calls = 0
    /\ ct_gen = 0
    /\ ct_result = "none"

NextClient ==
    \/ ClCheckCa
    \/ ClMetadata
    \/ ClFileName
    \/ ClEncode
    \/ ClBuild
    \/ ClConnect
    \/ ClOpenStream
    \/ ClSendHeader
    \/ ClOpenFile
    \/ ClRead
    \/ ClSend
    \/ ClReadErr
    \/ ClReadEof
    \/ ClClose

SpecClient == InitSpecClient /\ [][NextClient]_vars

InitSpecCert ==
    /\ cd_pc = "off"
    /\ cd_name = <<>>
    /\ cd_size = <<0, 0, 0, 0>>
    /\ cd_enc = Err("none")
    /\ cd_buf = <<>>
    /\ cd_dec = None
    /\ cd_raw = <<>>
    /\ cd_again = None
    /\ san_pc = "off"
    /\ san_in = <<>>
    /\ san_out = <<>>
    /\ listening = FALSE
    /\ conn = [c \in Conns |-> "pending"]
    /\ pc = [h \in Streams |-> "idle"]
    /\ wire = [h \in Streams |-> <<>>]
    /\ rcvd = [h \in Streams |-> 0]
    /\ buffer = [h \in Streams |-> <<>>]
    /\ header = [h \in Streams |-> NoHeader]
    /\ consumed = [h \in Streams |-> 0]
    /\ target_path = [h \in Streams |-> NoPath]
    /\ written = [h \in Streams |-> 0]
    /\ chunk = [h \in Streams |-> <<>>]
    /\ accepted = [h \in Streams |-> 0]
    /\ file = [h \in Streams |-> NoFile]
    /\ sink = [h \in Streams |-> <<>>]
    /\ report = [h \in Streams |-> NoReport]
    /\ fs = [p \in {} |-> <<>>]
    /\ cl_pc = "off"
    /\ cl_file = <<>>
    /\ cl_name = <<>>
    /\ cl_size = U64(0)
    /\ cl_header = Err("none")
    /\ cl_conn = FALSE
    /\ cl_stream = "none"
    /\ cl_sent = <<>>
    /\ cl_off = 0
    /\ cl_buf = <<>>
    /\ cl_total = 0
    /\ cl_err = "none"
    /\ ct_cert_path \in CertPaths
    /\ ct_key_path \in CertPaths
    /\ ct_files \in [CertPaths -> {Absent, FileWith(Old)}]
    /\ ct_calls = 0
    /\ ct_gen = 0
    /\ ct_result = "none"

NextCert == EnsureCertificate

SpecCert == InitSpecCert /\ [][NextCert]_vars

(***************************************************************************)
(* Claims about the header codec (SpecCodec)                               *)
(***************************************************************************)
\* the whole encoded header was handed to try_decode_header
DecodedWhole == cd_pc = "decoded" /\ Len(cd_buf) = Len(cd_enc.bytes)

\* C1: round trip. Every name of at most 65535 bytes encodes, and decoding
\* the encoded header gives Some with the same name bytes, the same size and
\* a consumed length of 10 + len(name).
C1_RoundTrip ==
    /\ (cd_pc # "input" /\ Len(cd_name) <= U16_MAX) => cd_enc.ok
    /\ DecodedWhole =>
          /\ cd_dec.some
          /\ cd_dec.header.file_name = cd_name
          /\ cd_dec.header.file_size = cd_size
          /\ cd_dec.consumed = 10 + Len(cd_name)

\* a name whose length takes both length bytes and the largest size went round
C1_Witness ==
    /\ DecodedWhole
    /\ Len(cd_name) = 256
    /\ cd_size = <<65535, 65535, 65535, 65535>>
    /\ cd_dec.some
    /\ cd_dec.header.file_name = cd_name

\* C2: partial-buffer safety. Every proper prefix of an encoded header
\* decodes to None; the whole header decodes to Some with consumed = len(H).
C2_PartialBuffer ==
    cd_pc = "decoded" =>
        /\ Len(cd_buf) < Len(cd_enc.bytes) => cd_dec = None
        /\ Len(cd_buf) = Len(cd_enc.bytes) =>
              cd_dec.some /\ cd_dec.consumed = Len(cd_enc.bytes)

\* a prefix that holds the 10 fixed bytes but not the whole name gave None
C2_Witness ==
    /\ cd_pc = "decoded"
    /\ Len(cd_buf) >= HEADER_PREFIX_LEN
    /\ Len(cd_buf) < Len(cd_enc.bytes)
    /\ cd_dec = None
    /\ cd_raw = <<>>
    /\ cd_again = None

\* encode_header has returned Ok
Encoded == cd_pc # "input" /\ cd_enc.ok

\* C11: wire layout. An encoded header has exactly 10 + name_len bytes: the
\* name length in bytes 0-1, low byte first; the size in bytes 2-9, low byte
\* first; then the name bytes unchanged. The length appears once, before the
\* size.
C11_WireLayout ==
    Encoded =>
        LET b == cd_enc.bytes
        IN  /\ Len(b) = 10 + Len(cd_name)
            /\ \A i \in 1..10 : b[i] \in 0..255
            /\ b[1] + 256 * b[2] = Len(cd_name)
            /\ \A i \in 1..4 : b[2 * i + 1] + 256 * b[2 * i + 2] = cd_size[i]
            /\ SubSeq(b, 11, Len(b)) = cd_name

\* a name of 256 bytes and the size 0x0807060504030201: the ten fixed bytes
C11_Witness ==
    /\ Encoded
    /\ Len(cd_name) = 256
    /\ SubSeq(cd_enc.bytes, 1, 10) = <<0, 1, 1, 2, 3, 4, 5, 6, 7, 8>>
    /\ Len(cd_enc.bytes) = 266

\* the name bytes of the header H in cd_raw
RawName == SubSeq(cd_raw, 11, Len(cd_raw))

\* C12: trailing bytes and lenient names. A buffer H ++ T, H a whole header
\* with any name bytes, decodes to Some with the size of H and consumed =
\* len(H) whatever T is; bytes that are not UTF-8 are replaced, never
\* rejected; a second call on the same buffer gives the same result.
C12_TrailingBytes ==
    /\ cd_pc \in {"probed", "probed_again"} =>
          /\ cd_dec.some
          /\ cd_dec.consumed = Len(cd_raw)
          /\ cd_dec.header.file_size = cd_size
          /\ cd_dec = try_decode_header(cd_raw)
          /\ SubSeq(cd_buf, 1, Len(cd_raw)) = cd_raw
          /\ RawName \in { <<>>, <<97>>, <<195, 169>>, <<SEP, DOT, DOT>>, cd_name } =>
                cd_dec.header.file_name = RawName
          /\ RawName \in { <<255>>, <<195>>, <<226, 130>>, <<240, 159, 152>>, <<128>> } =>
                cd_dec.header.file_name = REPLACEMENT
          /\ RawName = <<97, 255, 98>> =>
                cd_dec.header.file_name = <<97>> \o REPLACEMENT \o <<98>>
          /\ RawName = <<192, 128>> =>
                cd_dec.header.file_name = REPLACEMENT \o REPLACEMENT
          /\ RawName = <<237, 160, 128>> =>
                cd_dec.header.file_name = REPLACEMENT \o REPLACEMENT \o REPLACEMENT
    /\ cd_pc = "probed_again" => cd_again = cd_dec

\* a header whose name is a cut 3-byte character, followed by bytes that are
\* themselves a header, was decoded twice
C12_Witness ==
    /\ cd_pc = "probed_again"
    /\ RawName = <<226, 130>>
    /\ Len(cd_buf) = Len(cd_raw) + 11
    /\ cd_dec.some
    /\ cd_dec.consumed = 12
    /\ cd_dec.header.file_name = REPLACEMENT
    /\ cd_again = cd_dec

(***************************************************************************)
(* Claims about the name sanitizer (SpecSan)                               *)
(***************************************************************************)
\* C8: the sanitized name is not empty, holds no path separator and is
\* neither "." nor "..", for every input (the function has no failing return).
C8_NoTraversal ==
    san_pc = "done" =>
        /\ san_out # <<>>
        /\ \A i \in 1..Len(san_out) : san_out[i] # SEP
        /\ san_out # <<DOT>>
        /\ san_out # <<DOT, DOT>>

\* an input that ends in a ".." segment was sanitized
C8_Witness ==
    /\ san_pc = "done"
    /\ Len(san_in) >= 3
    /\ SubSeq(san_in, Len(san_in) - 2, Len(san_in)) = <<SEP, DOT, DOT>>
    /\ san_out = RECEIVED_FILE

RECURSIVE Segments(_)
\* the input cut at every separator, front to back
Segments(s) ==
    LET seps == {i \in 1..Len(s) : s[i] = SEP}
    IN  IF seps = {} THEN << s >>
        ELSE LET i == Min(seps)
             IN  << SubSeq(s, 1, i - 1) >> \o Segments(SubSeq(s, i + 1, Len(s)))

IsName(seg) == seg # <<>> /\ seg # <<DOT>>

\* the segments that name something: not empty and not "."
Named(s) == SelectSeq(Segments(s), IsName)

\* the input has a final component that names a file
HasFinalComponent(s) == Named(s) # <<>> /\ Named(s)[Len(Named(s))] # <<DOT, DOT>>

\* C9: the result is the last path component of the input when there is one
\* (the spec's examples included), and "received_file" when there is none.
C9_LastComponent ==
    san_pc = "done" =>
        /\ HasFinalComponent(san_in) => san_out = Named(san_in)[Len(Named(san_in))]
        /\ ~HasFinalComponent(san_in) => san_out = RECEIVED_FILE
        /\ san_in = EtcPasswd => san_out = Passwd
        /\ san_in = ABCTxt => san_out = CTxt
        /\ san_in \in { <<>>, <<SEP>>, <<SEP, SEP>> } => san_out = RECEIVED_FILE

\* "../../etc/passwd" gave "passwd"
C9_Witness == san_pc = "done" /\ san_in = EtcPasswd /\ san_out = Passwd

(***************************************************************************)
(* Claims about the receiver (Spec)                                        *)
(***************************************************************************)
\* w begins with a whole header: the 10 fixed bytes and the name they announce
CompleteHeader(w) == Len(w) >= 10 /\ Len(w) >= 10 + w[1] + 256 * w[2]

\* a is a prefix of b
IsPrefix(a, b) == Len(a) <= Len(b) /\ SubSeq(b, 1, Len(a)) = a

\* the handler of h saw the clean end of the stream and its flush succeeded
FlushedWell(h) == report[h].kind \in {"received", "warning"}

\* the handler of h saw the clean end of the stream and its flush failed
FlushFailed(h) == report[h].kind = "store_failed" /\ report[h].err = "flush"

\* the handler of h saw the clean end of the stream while streaming the body
\* and has ended
EndedAfterBody(h) == FlushedWell(h) \/ FlushFailed(h)

\* the bytes handed to a blocking write of h's handle that has not run yet
InFlight(h) == IF file[h].res = "pending" THEN file[h].buf ELSE <<>>

\* a write of h's handle has failed and the handle was not asked since
WriteFailed(h) == file[h].state = "Busy" /\ file[h].res = "err"

\* the handler of h has ended
Ended(h) == pc[h] \notin Running /\ pc[h] # "idle"

\* the destination file of h has been created: the open File::create handed
\* over has succeeded
HasFile(h) ==
    \/ pc[h] = "create" /\ file[h] = Opened("ok")
    \/ pc[h] \in {"write_rest", "body", "write_chunk", "flush", "received", "warned"}
    \/ pc[h] = "store_failed" /\ report[h].err # "create"

\* C3: chunk-boundary independence. However encode_header(n, z) ++ B was cut
\* into deliveries, a handler that has seen the clean end of the stream has
\* decoded the header (n, z) and counts len(B) bytes; if its flush succeeded
\* its handle has put exactly B into the file and, when len(B) = z, it has
\* reported no integrity warning; if a write failed, a part of B from its
\* start.
C3_ChunkIndependence ==
    \A h \in Streams : \A n \in SrvNames : \A z \in SrvSizes : \A k \in 0..MaxBody :
        (wire[h] = encode_header(n, z).bytes \o Body(h, k) /\ EndedAfterBody(h)) =>
            /\ header[h] = FileHeader(n, z)
            /\ consumed[h] = 10 + Len(n)
            /\ written[h] = k
            /\ FlushedWell(h) => sink[h] = Body(h, k)
            /\ FlushFailed(h) => (IsPrefix(sink[h], Body(h, k)) /\ sink[h] # Body(h, k))
            /\ (U64(k) = z => report[h].kind # "warning")

\* a transfer ended whose first body byte arrived together with the header
\* and whose second arrived later
C3_Witness ==
    \E h \in Streams :
        /\ pc[h] = "warned"
        /\ Len(buffer[h]) = consumed[h] + 1
        /\ sink[h] = Body(h, 2)

\* C4: clean end-of-data before a whole header has arrived is reported as
\* "closed before header", with no session and no destination file; a whole
\* header followed at once by end-of-data is not reported that way.
C4_ProtocolViolation ==
    \A h \in Streams :
        /\ pc[h] = "closed_before_header" =>
              /\ report[h] = ClosedBeforeHeader
              /\ ~CompleteHeader(wire[h])
              /\ buffer[h] = wire[h]
              /\ target_path[h] = NoPath
              /\ header[h] = NoHeader
              /\ sink[h] = <<>>
        /\ (Ended(h) /\ CompleteHeader(wire[h])) =>
              report[h].kind # "closed_before_header"
        /\ \A p \in DOMAIN fs : \E g \in Streams : HasFile(g) /\ target_path[g] = p

\* five bytes arrived, then the end of the stream
C4_Witness ==
    \E h \in Streams :
        /\ pc[h] = "closed_before_header"
        /\ Len(buffer[h]) = TruncLen
        /\ fs = <<>>

\* C4 (second part): a header with no body was received and is not a violation
C4_EmptyFileSeen ==
    \E h \in Streams :
        /\ pc[h] = "warned"
        /\ Len(wire[h]) = consumed[h]

\* no other session was given the destination path of h
AloneAtPath(h) == \A g \in Streams \ {h} : target_path[g] # target_path[h]

\* C5 as stated: whenever clean end-of-data arrives in StreamingBody the
\* session reports success iff bytes_written = file_size and a warning with
\* expected and actual otherwise, never ends with an error, and the
\* destination holds every body byte delivered.
C5_Original ==
    \A h \in Streams :
        EndedAfterBody(h) =>
            /\ report[h].kind = "received" <=> U64(written[h]) = header[h].file_size
            /\ U64(written[h]) # header[h].file_size =>
                  report[h] = Warning(header[h], written[h])
            /\ pc[h] # "store_failed"
            /\ fs[target_path[h]] = remaining(wire[h], consumed[h])

\* C5 amended: the same when the final flush succeeds and, for the contents
\* of the destination, when no other session was given the same path; when
\* the flush fails (a write did not reach the file) the session ends with a
\* store error, reports neither, and the destination lacks bytes of the body.
C5_Finalization ==
    \A h \in Streams :
        EndedAfterBody(h) =>
            /\ report[h].kind = "received" =>
                  /\ U64(written[h]) = header[h].file_size
                  /\ pc[h] = "received"
                  /\ report[h] = Received(header[h], target_path[h])
            /\ report[h].kind = "warning" =>
                  /\ U64(written[h]) # header[h].file_size
                  /\ pc[h] = "warned"
                  /\ report[h].expected = header[h].file_size
                  /\ report[h].actual = written[h]
            /\ report[h].kind = "store_failed" => pc[h] = "store_failed"
            /\ written[h] = Len(remaining(wire[h], consumed[h]))
            /\ FlushedWell(h) => sink[h] = remaining(wire[h], consumed[h])
            /\ FlushFailed(h) => sink[h] # remaining(wire[h], consumed[h])
            /\ AloneAtPath(h) => fs[target_path[h]] = sink[h]

\* a warning for a body longer than declared, the file kept
C5_Witness ==
    \E h \in Streams :
        /\ pc[h] = "warned"
        /\ report[h].actual = 2
        /\ report[h].expected = U64(1)
        /\ AloneAtPath(h)
        /\ fs[target_path[h]] = Body(h, 2)

\* the bytes of stream h that have arrived after its header, in arrival order
ArrivedBody(h) == SubSeq(wire[h], consumed[h] + 1, rcvd[h])

\* the session of h is in StreamingBody: it waits for a delivery of the body
\* or for the write of one
StreamingBody(h) == pc[h] \in {"body", "write_chunk"}

\* C13 as stated: in every state of a session in StreamingBody,
\* bytes_written is the number of bytes in the destination and the number of
\* bytes received minus the header's length, and the destination holds
\* exactly the bytes received after the header, in arrival order.
C13_Original ==
    \A h \in Streams :
        StreamingBody(h) =>
            /\ written[h] = Len(fs[target_path[h]])
            /\ written[h] = rcvd[h] - consumed[h]
            /\ fs[target_path[h]] = ArrivedBody(h)

\* C13 amended: whenever a session waits for the next delivery of the body,
\* bytes_written is the number of bytes received minus the header's length,
\* all of them handed to its file handle in arrival order: the bytes the
\* handle has put into the file, then those of the write in flight, are the
\* bytes received after the header unless a write has failed, and always
\* begin them.  While a chunk waits to be written, the counter lacks that
\* chunk.  The destination holds exactly the bytes the handle has put into
\* it when no other session was given the same path.
C13_BodyAccounting ==
    \A h \in Streams :
        /\ pc[h] = "body" =>
              /\ written[h] = rcvd[h] - consumed[h]
              /\ written[h] = Len(ArrivedBody(h))
              /\ ~WriteFailed(h) => sink[h] \o InFlight(h) = ArrivedBody(h)
              /\ WriteFailed(h) =>
                    (IsPrefix(sink[h], ArrivedBody(h)) /\ sink[h] # ArrivedBody(h))
        /\ pc[h] = "write_chunk" =>
              /\ accepted[h] = 0
              /\ written[h] = rcvd[h] - consumed[h] - Len(chunk[h])
              /\ chunk[h] = SubSeq(wire[h], rcvd[h] - Len(chunk[h]) + 1, rcvd[h])
              /\ IsPrefix(sink[h] \o InFlight(h), ArrivedBody(h))
        /\ (StreamingBody(h) /\ AloneAtPath(h)) => fs[target_path[h]] = sink[h]

\* two body bytes in two deliveries, the first together with the header: both
\* are counted, the first is in the file, the second is in flight, the
\* session waits for more
C13_Witness ==
    \E h \in Streams :
        /\ pc[h] = "body"
        /\ Len(buffer[h]) = consumed[h] + 1
        /\ written[h] = 2
        /\ AloneAtPath(h)
        /\ fs[target_path[h]] = Body(h, 1)
        /\ InFlight(h) = <<16 * h + 2>>

\* the handler of h, or the blocking write of its file handle, takes this step
Stepped(h) == pc'[h] # pc[h] \/ rcvd'[h] # rcvd[h] \/ file'[h] # file[h]

\* what the handler of g owns, its destination's contents aside
Local(g) ==
    <<pc[g], rcvd[g], buffer[g], header[g], consumed[g], target_path[g], written[g],
      chunk[g], accepted[g], file[g], sink[g], report[g]>>

\* the contents of g's destination, once g has created it
Dest(g) == IF HasFile(g) THEN fs[target_path[g]] ELSE <<>>

\* C6 as stated: no step of one handler changes anything another handler
\* reads or writes, the contents of its destination included.
C6_Original ==
    [][\A h \in Streams : \A g \in Streams \ {h} :
          Stepped(h) => (Local(g)' = Local(g) /\ Dest(g)' = Dest(g))]_vars

\* C6 amended: no step of one handler changes another handler's buffer,
\* counter, header, path or file handle; it changes the contents of another
\* session's destination only when both were given the same path.
C6_Isolation ==
    [][\A h \in Streams : \A g \in Streams \ {h} :
          Stepped(h) =>
              /\ Local(g)' = Local(g)
              /\ target_path[h]' # target_path[g] => Dest(g)' = Dest(g)]_vars

\* two sessions stream into different files at the same time
C6_Witness ==
    /\ pc[1] = "body" /\ pc[2] = "write_chunk"
    /\ target_path[1] # target_path[2]
    /\ fs[target_path[1]] = Body(1, 1)
    /\ fs[target_path[2]] = Body(2, 1)

\* the positions of a handler that ended with an error
Failed == {"closed_before_header", "read_failed", "store_failed"}

\* what the handler of g reports when it ends well depends on its own stream only
OwnOutcome(g) ==
    /\ report[g].kind = "received" =>
          report[g] = Received(try_decode_header(wire[g]).header,
                               join(OUTPUT_DIR, sanitize_file_name(
                                   try_decode_header(wire[g]).header.file_name)))
    /\ report[g].kind = "warning" =>
          report[g] = Warning(try_decode_header(wire[g]).header,
                              Len(wire[g]) - try_decode_header(wire[g]).consumed)
    /\ report[g].kind \in {"received", "warning"} =>
          (report[g].kind = "received" <=>
              U64(Len(wire[g]) - try_decode_header(wire[g]).consumed)
                  = try_decode_header(wire[g]).header.file_size)

\* C7: error locality. A handler that ends with an error (protocol
\* violation, transport error, store error) changes nothing of any other
\* handler, of the connections or of the accept loop, and a failing write
\* changes nothing of another handler either; the outcome of every session
\* is a function of its own stream; the accept loop ends in no step of a
\* handler, only when accept() itself returns None.
C7_ErrorLocality ==
    /\ [](\A g \in Streams : OwnOutcome(g))
    /\ [][\A h \in Streams :
            /\ (pc[h] \notin Failed /\ pc'[h] \in Failed) =>
                  /\ \A g \in Streams \ {h} : Local(g)' = Local(g)
                  /\ conn' = conn
                  /\ listening /\ listening'
            /\ (~WriteFailed(h) /\ WriteFailed(h)') =>
                  /\ \A g \in Streams \ {h} : Local(g)' = Local(g)
                  /\ conn' = conn
                  /\ listening' = listening
            /\ Stepped(h) => listening' = listening]_vars

\* one handler failed to store its file, the other received its file, the
\* server listens
C7_Witness ==
    /\ pc[1] = "store_failed"
    /\ report[1].err = "write"
    /\ pc[2] = "received"
    /\ conn[2] = "open"
    /\ listening

\* the session of h was aborted by a transport error or a failed write (the
\* next write_all or the flush returns the error of a failed write)
AbortedInBody(h) ==
    pc[h] = "store_failed" /\ report[h].err \in {"receive", "write", "flush"}

\* the positions of a session that has its file and runs
InBody(h) == pc[h] \in {"write_rest", "body", "write_chunk", "flush"}

\* C14: a transport error or a failed write in StreamingBody ends that
\* session with an error and nothing else: it reports neither success nor a
\* warning (no session whose write failed ends well), no other handler,
\* connection or the accept loop changes, and the destination stays in place
\* with the bytes written so far: the aborting step changes no file, and no
\* later step removes the file or, when no other session was given the same
\* path, takes a byte from it.
C14_BodyError ==
    /\ [](\A h \in Streams :
            /\ AbortedInBody(h) =>
                  /\ report[h] = StoreFailed(report[h].err)
                  /\ target_path[h] \in DOMAIN fs
                  /\ IsPrefix(sink[h], remaining(wire[h], consumed[h]))
                  /\ AloneAtPath(h) => fs[target_path[h]] = sink[h]
            /\ pc[h] \in {"received", "warned"} =>
                  /\ rcvd[h] = Len(wire[h])
                  /\ sink[h] = remaining(wire[h], consumed[h])
            /\ WriteFailed(h) => (InBody(h) \/ AbortedInBody(h)))
    /\ [][\A h \in Streams :
            /\ (InBody(h) /\ AbortedInBody(h)') =>
                  /\ \A g \in Streams \ {h} : Local(g)' = Local(g)
                  /\ conn' = conn /\ listening' = listening
                  /\ fs' = fs /\ sink' = sink /\ written' = written
                  /\ report'[h].err \in {"write", "flush"} => WriteFailed(h)
            /\ (WriteFailed(h) /\ pc'[h] # pc[h]) =>
                  (AbortedInBody(h)' \/ pc'[h] \in {"write_chunk", "flush"})
            /\ AbortedInBody(h) =>
                  /\ AbortedInBody(h)'
                  /\ DOMAIN fs \subseteq DOMAIN fs'
                  /\ AloneAtPath(h)' =>
                        IsPrefix(fs[target_path[h]], fs'[target_path[h]])]_vars

\* the transport failed after two body bytes were taken: the first is in the
\* file, the second was in flight and reached the file after the abort; the
\* other stream's transfer was received
C14_Witness ==
    \E h \in Streams : \E g \in Streams \ {h} :
        /\ pc[h] = "store_failed"
        /\ report[h].err = "receive"
        /\ written[h] = 2
        /\ file[h] = Done("ok")
        /\ fs[target_path[h]] = Body(h, 2)
        /\ pc[g] = "received"

\* the session of h has finished: end of stream, flush, success or warning
Finished(h) == pc[h] \in {"received", "warned"}

\* the session of h has not created its destination yet: it has no header, or
\* the open of File::create has not run
NotCreated(h) ==
    \/ pc[h] \in {"idle", "await_header"}
    \/ pc[h] = "create" /\ file[h] = Opening

\* C15: overwrite on name collision. When a transfer has finished before a
\* second transfer creates its destination and both names sanitize to the
\* same file name, then once the second has finished the destination holds
\* exactly the second transfer's body bytes.
C15_Overwrite ==
    \A g \in Streams : \A h \in Streams \ {g} :
        []((Finished(g) /\ NotCreated(h)) =>
              []((Finished(h) /\ target_path[h] = target_path[g]) =>
                    /\ fs[target_path[h]] = remaining(wire[h], consumed[h])
                    /\ DOMAIN fs = {target_path[h]}))

\* a transfer of two bytes was replaced by a transfer of one byte with the
\* same sanitized name
C15_Witness ==
    \E g \in Streams : \E h \in Streams \ {g} :
        /\ Finished(g) /\ Finished(h)
        /\ target_path[h] = target_path[g]
        /\ sink[g] = Body(g, 2)
        /\ sink[h] = Body(h, 1)
        /\ fs[target_path[h]] = Body(h, 1)

\* what the task of handler h holds: its position and its variables
Task(h) ==
    <<pc[h], rcvd[h], buffer[h], header[h], consumed[h], target_path[h], written[h],
      chunk[h], accepted[h], report[h]>>

\* C17 as stated: every handler that was spawned reaches a terminal outcome,
\* provided receive() always returns in the end and every write completes;
\* the end of the stream or a transport error ends the handler from whichever
\* state it waits in; once ended, a handler takes no further step and writes
\* nothing more.
C17_Original ==
    /\ \A h \in Streams : (pc[h] \in Running) ~> Ended(h)
    /\ [][\A h \in Streams :
            Ended(h) => (Task(h)' = Task(h) /\ sink'[h] = sink[h])]_vars

\* C17 amended: as long as main has not returned, every handler that was
\* spawned reaches a terminal outcome, provided receive() always returns in
\* the end and every write completes; the end of the stream or a transport
\* error ends the handler from whichever state it waits in, after the flush
\* when it is the end of the stream of a body.  Once ended, a handler takes
\* no further step; the one write it had in flight when a transport error
\* ended it may still reach the file, and nothing else does.  Once main has
\* returned no handler takes a step.
C17_Termination ==
    /\ \A h \in Streams : (pc[h] \in Running) ~> (Ended(h) \/ ~listening)
    /\ [][\A h \in Streams :
            /\ (pc[h] = "await_header" /\ pc'[h] # pc[h] /\ rcvd'[h] = rcvd[h]) =>
                  Ended(h)'
            /\ (pc[h] = "body" /\ pc'[h] # pc[h] /\ rcvd'[h] = rcvd[h]) =>
                  (pc'[h] = "flush" \/ Ended(h)')
            /\ (pc[h] = "flush" /\ pc'[h] # pc[h]) => Ended(h)'
            /\ (Ended(h) \/ ~listening) => (Task(h)' = Task(h) /\ wire'[h] = wire[h])
            /\ (Ended(h) /\ sink'[h] # sink[h]) =>
                  /\ report[h] = StoreFailed("receive")
                  /\ file[h].res = "pending" /\ file'[h].res # "pending"
                  /\ sink'[h] = sink[h] \o file[h].buf
                        \/ (IsPrefix(sink[h], sink'[h]) /\ file'[h].res = "err")
            /\ (Ended(h) /\ file[h].res # "pending") => file'[h] = file[h]
            /\ (~listening /\ (file'[h] # file[h] \/ sink'[h] # sink[h])) =>
                  (file[h].res = "pending" /\ file'[h].res # "pending")
            /\ (Ended(h) /\ file[h].res # "pending" /\ AloneAtPath(h)' /\ HasFile(h)) =>
                  fs'[target_path[h]] = fs[target_path[h]]]_vars

\* both handlers have ended, one at the end of its stream and one on a
\* transport error in the body with a write in flight, which has reached the
\* file since
C17_Witness ==
    /\ pc[2] = "received"
    /\ pc[1] = "store_failed"
    /\ report[1].err = "receive"
    /\ rcvd[1] < Len(wire[1])
    /\ file[1] = Done("ok")
    /\ Len(sink[1]) = written[1]
    /\ written[1] > 0
    /\ listening

\* how far a handler is: spawned, header decoded, file created, streaming,
\* flushing, ended
PhaseRank(p) ==
    IF p = "idle" THEN 0
    ELSE IF p = "await_header" THEN 1
    ELSE IF p = "create" THEN 2
    ELSE IF p = "write_rest" THEN 3
    ELSE IF p \in {"body", "write_chunk"} THEN 4
    ELSE IF p = "flush" THEN 5
    ELSE 6

\* the handler of h has decoded a header
HeaderDecoded(h) == pc[h] = "create" \/ HasFile(h)
                        \/ (pc[h] = "store_failed" /\ report[h].err = "create")

\* C18: one-way phase change. A handler goes from AwaitingHeader to
\* StreamingBody at most once and never back; it decodes one header, the
\* first, and creates (truncates) its destination once, at that change;
\* every byte after the first header is written as body, also when those
\* bytes are themselves an encoded header.
C18_OneWayPhase ==
    /\ [](\A h \in Streams :
            /\ (HeaderDecoded(h) /\ wire[h] = NestedWire) =>
                  /\ header[h] = FileHeader(<<98>>, U64(11))
                  /\ consumed[h] = 11
                  /\ target_path[h] = join(OUTPUT_DIR, <<98>>)
            /\ pc[h] = "body" =>
                  /\ written[h] = Len(ArrivedBody(h))
                  /\ IsPrefix(sink[h], ArrivedBody(h))
                  /\ ~WriteFailed(h) => sink[h] \o InFlight(h) = ArrivedBody(h)
            /\ (Finished(h) /\ wire[h] = NestedWire) =>
                  /\ sink[h] = NestedHeader
                  /\ fs[target_path[h]] = NestedHeader
                  /\ report[h] = Received(FileHeader(<<98>>, U64(11)),
                                          join(OUTPUT_DIR, <<98>>))
                  /\ \A p \in DOMAIN fs : p.name # <<99>>)
    /\ [][\A h \in Streams :
            /\ PhaseRank(pc'[h]) >= PhaseRank(pc[h])
            /\ (pc'[h] = "create" /\ pc[h] # "create") => pc[h] = "await_header"
            /\ (header'[h] # header[h] \/ consumed'[h] # consumed[h]
                    \/ target_path'[h] # target_path[h]) =>
                  (pc[h] = "await_header" /\ pc'[h] = "create")
            /\ (file'[h] = Opening /\ file[h] # Opening) =>
                  (pc[h] = "await_header" /\ pc'[h] = "create")
            /\ (file[h] = Opening /\ file'[h] = Opened("ok")) =>
                  /\ pc[h] = "create"
                  /\ fs'[target_path[h]] = <<>> /\ sink'[h] = <<>>
                  /\ \A p \in DOMAIN fs \ {target_path[h]} : fs'[p] = fs[p]
            /\ (pc[h] = "create" /\ pc'[h] \in {"write_rest", "body"}) =>
                  /\ file[h] = Opened("ok")
                  /\ sink'[h] = <<>> /\ written'[h] = 0
                  /\ AloneAtPath(h) => fs'[target_path[h]] = <<>>
            /\ file[h] # Opening => IsPrefix(sink[h], sink'[h])
            /\ (Stepped(h) /\ file[h] # Opening) =>
                  \A p \in DOMAIN fs :
                      p \in DOMAIN fs' /\ Len(fs'[p]) >= Len(fs[p])]_vars

\* the header of "b" arrived alone, the body that is the header of "c"
\* arrived later: it is the contents of "b"
C18_Witness ==
    /\ pc[1] = "received"
    /\ wire[1] = NestedWire
    /\ Len(buffer[1]) = consumed[1]
    /\ try_decode_header(sink[1]).some
    /\ fs[join(OUTPUT_DIR, <<98>>)] = <<1, 0, 0, 0, 0, 0, 0, 0, 0, 0, 99>>

\* the handler of h is in AwaitingHeader or ended there
NoHeaderYet(h) == pc[h] \in {"await_header", "closed_before_header", "read_failed"}

\* C19: AwaitingHeader buffer invariant. After each delivery a handler still
\* awaits the header iff try_decode_header of its buffer is None: it leaves
\* on the first delivery that completes the 10 + name_len bytes, and while
\* it waits its buffer holds fewer than 10 + 65535 bytes.
C19_AwaitingBuffer ==
    /\ [](\A h \in Streams :
            /\ NoHeaderYet(h) =>
                  /\ try_decode_header(buffer[h]) = None
                  /\ ~CompleteHeader(buffer[h])
                  /\ Len(buffer[h]) >= 10 =>
                        Len(buffer[h]) < 10 + buffer[h][1] + 256 * buffer[h][2]
                  /\ Len(buffer[h]) < HEADER_PREFIX_LEN + U16_MAX
                  /\ buffer[h] = SubSeq(wire[h], 1, rcvd[h])
            /\ HeaderDecoded(h) =>
                  /\ CompleteHeader(buffer[h])
                  /\ try_decode_header(buffer[h]) = Some(header[h], consumed[h])
                  /\ consumed[h] = 10 + buffer[h][1] + 256 * buffer[h][2])
    /\ [][\A h \in Streams :
            /\ (pc[h] = "await_header" /\ pc'[h] = "create") =>
                  /\ ~CompleteHeader(buffer[h])
                  /\ CompleteHeader(buffer'[h])
                  /\ rcvd'[h] > rcvd[h]
            /\ pc[h] # "await_header" => buffer'[h] = buffer[h]]_vars

\* twelve bytes that announce a name of 65535 bytes have arrived: the
\* handler still awaits the header
C19_Witness ==
    /\ pc[1] = "await_header"
    /\ buffer[1] = LongAnnounce
    /\ try_decode_header(buffer[1]) = None
    /\ pc[2] = "closed_before_header"

(***************************************************************************)
(* Claims about the sender (SpecClient)                                    *)
(***************************************************************************)
\* encode_header has run
ClEncoded ==
    /\ cl_pc \notin {"check_ca", "metadata", "file_name", "encode"}
    /\ cl_err \notin {"ca_cert", "metadata", "file_name"}

\* C10: encode_header fails, with no bytes, iff the name is longer than
\* 65535 bytes; main then ends with nothing sent and no connection or stream
\* opened; whatever is on the wire starts with a whole, well-formed header.
C10_EncodeFailure ==
    /\ ClEncoded =>
          /\ ~cl_header.ok <=> Len(cl_name) > U16_MAX
          /\ ~cl_header.ok => cl_header.bytes = <<>>
          /\ ~cl_header.ok => (cl_pc = "failed" /\ cl_err = "encode")
    /\ (cl_conn \/ cl_stream # "none" \/ cl_sent # <<>>) =>
          (ClEncoded /\ cl_header.ok)
    /\ cl_sent # <<>> =>
          /\ Len(cl_sent) >= 10 + Len(cl_name)
          /\ cl_sent[1] + 256 * cl_sent[2] = Len(cl_name)
          /\ SubSeq(cl_sent, 11, 10 + Len(cl_name)) = cl_name

\* a name of 65536 bytes: main failed at encode_header
C10_Witness ==
    /\ cl_pc = "failed"
    /\ cl_err = "encode"
    /\ Len(cl_name) = U16_MAX + 1
    /\ cl_sent = <<>>
    /\ ~cl_conn

\* what was put on the stream after the header
SentBody == SubSeq(cl_sent, Len(cl_header.bytes) + 1, Len(cl_sent))

\* C16: sender ordering. The stream carries the encoded header once, before
\* any byte of the file, then the bytes of the file unchanged and in order,
\* and is closed after the last one: what was sent is encode_header(name,
\* size) ++ file, size being the length fs::metadata gave (it need not be the
\* number of bytes the reads return), and total_sent is the number of file
\* bytes sent.
C16_SenderOrdering ==
    /\ cl_sent # <<>> =>
          /\ cl_header = encode_header(cl_name, cl_size)
          /\ cl_header.ok
          /\ IsPrefix(cl_header.bytes, cl_sent)
          /\ IsPrefix(SentBody, cl_file)
          /\ cl_total = Len(SentBody)
          /\ cl_pc = "send" =>
                /\ cl_buf # <<>>
                /\ cl_buf = SubSeq(cl_file, Len(SentBody) + 1, cl_off)
          /\ cl_pc = "read" => Len(SentBody) = cl_off
    /\ cl_sent = <<>> => cl_total = 0
    /\ cl_pc \in {"open_file", "read", "send", "close", "done"} => cl_sent # <<>>
    /\ cl_pc \in {"close", "done"} =>
          /\ cl_sent = encode_header(cl_name, cl_size).bytes \o cl_file
          /\ cl_total = Len(cl_file)
    /\ cl_stream = "closed" <=> cl_pc = "done"

\* the file "d/e-acute" of three bytes was sent and the stream closed
C16_Witness ==
    /\ cl_pc = "done"
    /\ cl_stream = "closed"
    /\ cl_sent = <<2, 0, 3, 0, 0, 0, 0, 0, 0, 0, 195, 169, 65, 66, 67>>
    /\ cl_total = 3

(***************************************************************************)
(* Claims about the certificate bootstrap (SpecCert)                       *)
(***************************************************************************)
\* there is a file at the certificate path and a file at the key path
CertAndKey(files) == files[ct_cert_path].exists /\ files[ct_key_path].exists

\* this step is a call that found both files
FoundBoth == ct_calls' = ct_calls + 1 /\ CertAndKey(ct_files)

\* this step is a call that did not find both files and returned Ok
Bootstrapped ==
    /\ ct_calls' = ct_calls + 1
    /\ ~CertAndKey(ct_files)
    /\ ct_result' = "ok"

\* C20: certificate bootstrap. A call that finds a file at the certificate
\* path and a file at the key path returns Ok and changes no file; any other
\* call that returns Ok has generated a new certificate and key and written
\* each to its path (two different paths; when both arguments name one path
\* the file holds what was written last, the key); after a call that
\* returned Ok no further call changes a file.
C20_CertificateBootstrap ==
    [][/\ FoundBoth => (ct_result' = "ok" /\ ct_files' = ct_files /\ ct_gen' = ct_gen)
       /\ Bootstrapped =>
             /\ ct_gen' = ct_gen + 1
             /\ ct_cert_path # ct_key_path =>
                   ct_files'[ct_cert_path] = FileWith(CertPem(ct_gen'))
             /\ ct_files'[ct_key_path] = FileWith(KeyPem(ct_gen'))
             /\ CertAndKey(ct_files')
       /\ ct_result = "ok" => (ct_files' = ct_files /\ ct_result' = "ok")]_vars

\* a first call generated a key pair and failed, a second call generated
\* another and wrote its certificate and its key, a third changed nothing
C20_Witness ==
    /\ ct_calls = 3
    /\ ct_result = "ok"
    /\ ct_gen = 2
    /\ ct_cert_path = "certs/server-cert.pem"
    /\ ct_key_path = "certs/server-key.pem"
    /\ ct_files[ct_cert_path] = FileWith(CertPem(2))
    /\ ct_files[ct_key_path] = FileWith(KeyPem(2))

====
